---- MODULE Spec2Model ----
(***************************************************************************)
(* Model of the Spotify access layer of the Party Jukebox server           *)
(* (server.js): the in-memory token store and its guard (ensureToken,      *)
(* refreshAccessToken, exchangeCodeForTokens, logout), the OAuth login and *)
(* callback handlers, the retrying upstream client (spotifyFetch) and the  *)
(* two 15-second caches (playback state, Spotify queue).                   *)
(*                                                                         *)
(* The server runs on a single-threaded event loop: one step of the model  *)
(* is the code that runs between two suspension points (await of an        *)
(* upstream fetch, of a timer, of the listen callback).  The continuation  *)
(* of `await refreshAccessToken()` is a microtask: it runs before any      *)
(* other request is served (see MicrotaskPending).                         *)
(*                                                                         *)
(* Encoding of JavaScript values: null is Null (0), an absent query        *)
(* parameter is Undefined (-1), tokens / codes / states are positive       *)
(* numbers, times are milliseconds.                                        *)
(***************************************************************************)
EXTENDS Integers, Sequences, FiniteSets, TLC

VARIABLES
    now,                \* Date.now()
    ticks,              \* number of clock advances so far (bounds the run)
    tokenData,          \* [accessToken, refreshToken, expiresAt]
    playbackCache,      \* [data, timestamp]
    spotifyQueueCache,  \* [data, timestamp]
    useDynamic,         \* USE_DYNAMIC_OAUTH_PORT, fixed at startup
    currentOAuthState,  \* the single trusted state slot
    nStates,            \* number of state values generated so far
    oauthCallbackServer,\* "null" | "binding" | "listening" | "failed"
    oauthCallbackPort,  \* Null or the port read back from the socket
    servers,            \* the callback server objects created and not closed
    loginWait,          \* a /login handler awaits startOAuthCallbackServer()
    exch,               \* exchangeCodeForTokens calls awaiting the token endpoint
    reqs,               \* guarded requests in flight, by request slot
    db,                 \* the SQLite database: userSessions, partyQueue,
                        \* trackVotes, adminSessions
    sessionExpired,     \* history: the guard cleared the store after a failed
                        \* refresh and no exchange has succeeded since
    attemptPhase,       \* history: how far the authorization attempt of the
                        \* current state has come: "Idle", "AwaitingCallback",
                        \* "Exchanging", "Ended" (Completed or Failed)
    last                \* the most recent completed operation (observation)

vars == <<now, ticks, tokenData, playbackCache, spotifyQueueCache, useDynamic,
          currentOAuthState, nStates, oauthCallbackServer, oauthCallbackPort,
          servers, loginWait, exch, reqs, db, sessionExpired, attemptPhase,
          last>>

----------------------------------------------------------------------------
(* Program constants *)

Null == 0
Undefined == -1

MS_PER_MINUTE == 60 * 1000
TOKEN_REFRESH_BUFFER_MS == 5 * MS_PER_MINUTE
CacheTtl == 15000
maxRetries == 3

(* Bounds of the model *)

MaxTicks == 3       \* clock advances per run
MaxTokenTicks == 2  \* clock advances per run of the token-store specification
MaxToken == 2       \* distinct token values the token endpoint hands out
MaxLogins == 2      \* state values generated per run
MaxExch == 1        \* concurrent authorization-code exchanges
MaxPort == 1        \* ports the OS may assign

Reqs == {"r1", "r2"}
Tokens == 1 .. MaxToken
Ports == 1 .. MaxPort

Routes == {"search", "playback", "spotify-queue", "queue"}

EmptyToken == [accessToken |-> Null, refreshToken |-> Null, expiresAt |-> Null]
EmptyCache == [data |-> Null, timestamp |-> 0]
IdleReq == [pc |-> "idle", route |-> "none", reqNow |-> 0, attempt |-> 0,
            hist |-> <<>>, refreshed |-> FALSE, wake |-> 0, timers |-> {},
            bearers |-> <<>>, uri |-> ""]

----------------------------------------------------------------------------
(* Token store: pure parts *)

\* isAuthenticated(): accessToken && expiresAt && Date.now() < expiresAt,
\* as a condition (its truthiness)
isAuthenticated(td, t) ==
    td.accessToken # Null /\ td.expiresAt # Null /\ t < td.expiresAt

\* A JavaScript value as res.json() serialises it: its JSON type and, for a
\* boolean, its value.
JsNull == [type |-> "null", value |-> FALSE]
JsBoolean(b) == [type |-> "boolean", value |-> b]

\* The value isAuthenticated() returns: `a && b && c` is the first falsy
\* operand, else the last one.  A null accessToken or expiresAt is returned
\* as it is.
isAuthenticatedValue(td, t) ==
    IF td.accessToken = Null THEN JsNull
    ELSE IF td.expiresAt = Null THEN JsNull
    ELSE JsBoolean(t < td.expiresAt)

\* ensureToken: first check, `if (!tokenData.accessToken)`
hasAccessToken(td) == td.accessToken # Null

hasRefreshToken_always(td) == TRUE

\* refreshAccessToken: `if (!tokenData.refreshToken) return false` negated
hasRefreshToken(td) == td.refreshToken # Null

needsRefresh_noBuffer(td, t) == t >= td.expiresAt

needsRefresh_usableOnly(td, t) ==
    t >= td.expiresAt - TOKEN_REFRESH_BUFFER_MS /\ t < td.expiresAt

\* ensureToken: Date.now() >= tokenData.expiresAt - TOKEN_REFRESH_BUFFER_MS
\* (a null expiresAt counts as 0 in the subtraction, as Null does here)
needsRefresh(td, t) == t >= td.expiresAt - TOKEN_REFRESH_BUFFER_MS

\* Responses of the token endpoint.  kind "ok": 2xx with a JSON body;
\* kind "http": non-success status; kind "throw": fetch rejected.
TokenResponse(kind, status, at, rt, ei) ==
    [kind |-> kind, status |-> status, access_token |-> at,
     refresh_token |-> rt, expires_in |-> ei]

\* Refresh grant: the upstream may omit refresh_token (Null here).
RefreshResponses(ExpIn) ==
    { TokenResponse("ok", 200, at, rt, ei) :
          at \in Tokens, rt \in Tokens \cup {Null}, ei \in ExpIn }
    \cup { TokenResponse("http", s, Null, Null, 0) : s \in {400, 503} }
    \cup { TokenResponse("throw", 0, Null, Null, 0) }

\* Authorization-code grant: a success carries all three values.
ExchangeResponses(ExpIn) ==
    { TokenResponse("ok", 200, at, rt, ei) :
          at \in Tokens, rt \in Tokens, ei \in ExpIn }
    \cup { TokenResponse("http", s, Null, Null, 0) : s \in {400} }
    \cup { TokenResponse("throw", 0, Null, Null, 0) }

refreshWrite_firstWins(td, data, t) ==
    IF td.expiresAt # Null /\ t < td.expiresAt - TOKEN_REFRESH_BUFFER_MS
    THEN td
    ELSE [accessToken |-> data.access_token,
          refreshToken |-> IF data.refresh_token # Null
                           THEN data.refresh_token ELSE td.refreshToken,
          expiresAt |-> t + data.expires_in * 1000]

refreshWrite_overwrite(td, data, t) ==
    [accessToken |-> data.access_token,
     refreshToken |-> data.refresh_token,
     expiresAt |-> t + data.expires_in * 1000]

\* refreshAccessToken, success branch: the three assignments
refreshWrite(td, data, t) ==
    [accessToken |-> data.access_token,
     refreshToken |-> IF data.refresh_token # Null
                      THEN data.refresh_token ELSE td.refreshToken,
     expiresAt |-> t + data.expires_in * 1000]

refreshFailure_clears(td) == EmptyToken

\* refreshAccessToken, `!response.ok` branch and catch branch: return false,
\* nothing is assigned
refreshFailure(td) == td

exchangeWrite_keepsRefreshToken(td, data, t) ==
    [accessToken |-> data.access_token,
     refreshToken |-> td.refreshToken,
     expiresAt |-> t + data.expires_in * 1000]

\* exchangeCodeForTokens, success branch
exchangeWrite(td, data, t) ==
    [accessToken |-> data.access_token,
     refreshToken |-> data.refresh_token,
     expiresAt |-> t + data.expires_in * 1000]

----------------------------------------------------------------------------
(* Upstream client: pure parts of spotifyFetch *)

\* What one attempt of fetch() can end in: an HTTP response (status, body;
\* body Null when the response has no JSON body) or a rejection (err).
Outcome(kind, status, body, err) ==
    [kind |-> kind, status |-> status, body |-> body, err |-> err]

HistEntry(o) == [kind |-> o.kind, status |-> o.status, err |-> o.err]

\* response.ok
ok(status) == status >= 200 /\ status <= 299

shouldRetry_all4xx(status) == status >= 400

\* spotifyFetch: shouldRetry
shouldRetry(status) == status = 429 \/ status >= 500 \/ status = 408

isRetryable_all(err) == TRUE

\* spotifyFetch: isRetryable (err.name / err.message tests)
isRetryable(err) ==
    err \in {"AbortError", "fetch failed", "ECONNRESET", "ETIMEDOUT"}

spotifyFetchStep_errorsUncounted(a, o) ==
    IF o.kind = "response"
    THEN IF ok(o.status) \/ a = maxRetries THEN "return"
         ELSE IF ~shouldRetry(o.status) THEN "return"
         ELSE "retry"
    ELSE IF ~isRetryable(o.err) THEN "throw"
         ELSE "retry"

\* spotifyFetch: what the loop body does with the outcome of attempt a
spotifyFetchStep(a, o) ==
    IF o.kind = "response"
    THEN IF ok(o.status) \/ a = maxRetries THEN "return"
         ELSE IF ~shouldRetry(o.status) THEN "return"
         ELSE "retry"
    ELSE IF ~isRetryable(o.err) \/ a = maxRetries THEN "throw"
         ELSE "retry"

authorization_firstAttempt(td, sent) ==
    IF sent = <<>> THEN td.accessToken ELSE sent[1]

\* spotifyFetch: the Authorization header of an attempt,
\* `Bearer ${tokenData.accessToken}`, built when fetch is called; sent is
\* what the earlier attempts of the call carried.
authorization(td, sent) == td.accessToken

\* spotifyFetch: timeoutMs
timeoutMs == 10000

setTimeout_fromCallStart(ts, a, t) ==
    ts \cup {[attempt |-> a, set |-> t,
              due |-> t + timeoutMs - (2 ^ a - 1) * 1000]}

\* Each attempt creates its own AbortController and its own timer:
\* setTimeout(() => controller.abort(), timeoutMs) at time t for attempt a
\* of a call whose pending timers are ts.
setTimeout(ts, a, t) ==
    ts \cup {[attempt |-> a, set |-> t, due |-> t + timeoutMs]}

\* clearTimeout(timeoutId), after the fetch of attempt a has settled
clearTimeout(ts, a) == {x \in ts : x.attempt # a}

delayMs_linear(a) == (a + 1) * 1000

\* spotifyFetch: delayMs = Math.pow(2, attempt) * 1000
delayMs(a) == (2 ^ a) * 1000

----------------------------------------------------------------------------
(* Error bodies: parseSpotifyErrorResponse *)

\* A body text: `core` between optional surrounding whitespace (`padded`).
Text(core, padded) == [core |-> core, padded |-> padded]
EmptyText == Text("", FALSE)

\* What JSON.parse makes of a text (surrounding whitespace is JSON
\* whitespace): a syntax error, or the value with the parts that
\* `errorData.error?.message` looks at.
\*   type: "null" | "number" | "object"
\*   error: "absent" | "string" | "object"      (of an object)
\*   message: "absent" | "" | the message       (of an error object)
Json(type, error, message) ==
    [valid |-> TRUE, type |-> type, error |-> error, message |-> message]
SyntaxError ==
    [valid |-> FALSE, type |-> "", error |-> "", message |-> ""]

JSONparse(core) ==
    CASE core = "{\"error\":{\"status\":403,\"message\":\"Restriction violated\"}}"
            -> Json("object", "object", "Restriction violated")
      [] core = "{\"error\":{\"status\":403,\"message\":\"\"}}"
            -> Json("object", "object", "")
      [] core = "{\"error\":{\"status\":403}}"
            -> Json("object", "object", "absent")
      [] core = "{\"error\":\"invalid_grant\"}"
            -> Json("object", "string", "absent")
      [] core = "{\"status\":500,\"reason\":\"Internal error\"}"
            -> Json("object", "absent", "absent")
      [] core = "503" -> Json("number", "absent", "absent")
      [] core = "null" -> Json("null", "absent", "absent")
      [] OTHER -> SyntaxError

\* responseText.trim()
trim(text) == text.core

\* `responseText && responseText.trim()` negated
isBlank(text) == trim(text) = ""

\* `errorData.error?.message` throws a TypeError when errorData is null
readsMessageThrows(json) == json.type = "null"

\* `errorData.error?.message` is truthy
hasMessage(json) ==
    /\ json.type = "object"
    /\ json.error = "object"
    /\ json.message \notin {"absent", ""}

parseSpotifyErrorResponse_rawWhenNoMessage(text, bodyUsed, fallbackMessage) ==
    IF bodyUsed THEN fallbackMessage
    ELSE IF isBlank(text) THEN fallbackMessage
    ELSE LET errorData == JSONparse(text.core)
         IN  IF ~errorData.valid THEN trim(text)
             ELSE IF readsMessageThrows(errorData) THEN trim(text)
             ELSE IF hasMessage(errorData) THEN errorData.message
             ELSE trim(text)

\* parseSpotifyErrorResponse(response, fallbackMessage), for a response with
\* body `text`; response.text() rejects when the body was read before
\* (bodyUsed), which the outer catch turns into the fallback.
parseSpotifyErrorResponse(text, bodyUsed, fallbackMessage) ==
    IF bodyUsed THEN fallbackMessage
    ELSE IF isBlank(text) THEN fallbackMessage
    ELSE LET errorData == JSONparse(text.core)
         IN  IF ~errorData.valid THEN trim(text)
             ELSE IF readsMessageThrows(errorData) THEN trim(text)
             ELSE IF hasMessage(errorData) THEN errorData.message
             ELSE fallbackMessage

\* The body text an error response arrives with (none given: empty)
errorText(o) == IF "text" \in DOMAIN o THEN o.text ELSE EmptyText

\* spotifyFetch: the response it returns from the non-retryable branch has
\* had its body read by `await response.text()`; a body can be read once,
\* so a later response.text() rejects.
bodyUsed(a, o) ==
    /\ o.kind = "response"
    /\ ~(ok(o.status) \/ a = maxRetries)
    /\ ~shouldRetry(o.status)

----------------------------------------------------------------------------
(* Caches: pure parts *)

\* result = { playing: false, device: null }           (playback, 204)
NoPlayback == 1
\* result = { queue: [], currentlyPlaying: null }      (spotify-queue, 404)
EmptyQueue == 2
MaxBody == 1        \* distinct upstream JSON bodies
Bodies == 3 .. (2 + MaxBody)

isCacheValid_inclusive(cache, t) ==
    cache.data # Null /\ t - cache.timestamp <= CacheTtl

\* isCacheValid = cache.data && (now - cache.timestamp) < cache.ttl
isCacheValid(cache, t) ==
    cache.data # Null /\ t - cache.timestamp < CacheTtl

\* The part of a route handler that follows `await spotifyFetch(...)`:
\* the HTTP status sent to the client, the payload served, and the cache
\* entry left behind.  res is "response" or "throw".
playbackFinish(res, o, reqNow, cache) ==
    IF res = "throw"
    THEN [status |-> 500, data |-> Null, cache |-> cache]
    ELSE IF o.status = 204
    THEN [status |-> 200, data |-> NoPlayback,
          cache |-> [data |-> NoPlayback, timestamp |-> reqNow]]
    ELSE IF ~ok(o.status)
    THEN [status |-> o.status, data |-> Null, cache |-> cache]
    ELSE IF o.body = Null       \* response.json() throws, caught: 500
    THEN [status |-> 500, data |-> Null, cache |-> cache]
    ELSE [status |-> 200, data |-> o.body,
          cache |-> [data |-> o.body, timestamp |-> reqNow]]

spotifyQueueFinish(res, o, reqNow, cache) ==
    IF res = "throw"
    THEN [status |-> 500, data |-> Null, cache |-> cache]
    ELSE IF o.status = 404
    THEN [status |-> 404, data |-> Null,
          cache |-> [data |-> EmptyQueue, timestamp |-> reqNow]]
    ELSE IF ~ok(o.status)
    THEN [status |-> o.status, data |-> Null, cache |-> cache]
    ELSE IF o.body = Null
    THEN [status |-> 500, data |-> Null, cache |-> cache]
    ELSE [status |-> 200, data |-> o.body,
          cache |-> [data |-> o.body, timestamp |-> reqNow]]

searchFinish(res, o) ==
    IF res = "throw" THEN [status |-> 500, data |-> Null]
    ELSE IF ~ok(o.status) THEN [status |-> o.status, data |-> Null]
    ELSE IF o.body = Null THEN [status |-> 500, data |-> Null]
    ELSE [status |-> 200, data |-> o.body]

\* The `error` member of the JSON answer of a route ("" when the answer
\* has none); a is the attempt that ended the call.
routeError(route, res, o, a) ==
    IF route = "search"
    THEN IF res = "throw" THEN "Failed to search tracks"
         ELSE IF ~ok(o.status)
         THEN parseSpotifyErrorResponse(errorText(o), bodyUsed(a, o),
                                        "Search failed")
         ELSE IF o.body = Null THEN "Failed to search tracks"
         ELSE ""
    ELSE IF route = "queue"
    THEN IF res = "throw" THEN "Failed to add track to queue"
         ELSE IF o.status \in {200, 204} THEN ""
         ELSE IF o.status = 404
         THEN "No active device found. Please start playing on Spotify first."
         ELSE parseSpotifyErrorResponse(errorText(o), bodyUsed(a, o),
                                        "Failed to add to queue")
    ELSE IF route = "playback"
    THEN IF res = "throw" THEN "Failed to get playback state"
         ELSE IF o.status = 204 THEN ""
         ELSE IF ~ok(o.status) THEN "Failed to get playback state"
         ELSE IF o.body = Null THEN "Failed to get playback state"
         ELSE ""
    ELSE IF res = "throw" THEN "Failed to get Spotify queue"
         ELSE IF o.status = 404
         THEN "No active device found. Please start playing on Spotify first."
         ELSE IF ~ok(o.status)
         THEN parseSpotifyErrorResponse(errorText(o), bodyUsed(a, o),
                                        "Failed to get queue")
         ELSE IF o.body = Null THEN "Failed to get Spotify queue"
         ELSE ""

----------------------------------------------------------------------------
(* Database (database.js) and the party queue *)

IPs == {"10.0.0.1", "10.0.0.2"}
Tracks == {"t1", "t2", "t3"}
AdminTokens == {"a1", "a2"}

\* The server is started with MAX_TRACKS_PER_IP=2 and track limits enforced.
MAX_TRACKS_PER_IP == 2
enforceTrackLimits == TRUE

\* userSessions: trackCount by ipAddress (0 also when there is no row);
\* partyQueue: the rows (trackId, addedByIp); trackVotes: the number of rows
\* for (trackId, voterIp); adminSessions: expiresAt by token, Null when there
\* is no row.
EmptyDb ==
    [userSessions |-> [ip \in IPs |-> 0],
     partyQueue |-> {},
     trackVotes |-> [p \in Tracks \X IPs |-> 0],
     adminSessions |-> [k \in AdminTokens |-> Null]]

\* Both request slots are connections of the same guest; each slot asks
\* for its own track.
getClientIP(r) == "10.0.0.1"
uriOf(r) == IF r = "r1" THEN "t1" ELSE "t2"

getUserTrackCount(d, ip) == d.userSessions[ip]

\* INSERT ... ON CONFLICT DO UPDATE SET trackCount = trackCount + 1
incrementUserTrackCount(d, ip) == [d EXCEPT !.userSessions[ip] = @ + 1]

\* INSERT OR IGNORE under UNIQUE(trackId, addedByIp)
addToPartyQueue(d, trackId, ip) ==
    [d EXCEPT !.partyQueue = @ \cup {[trackId |-> trackId, addedByIp |-> ip]}]

\* getPartyQueue().find(t => t.id === trackId)
inPartyQueue(d, trackId) == \E row \in d.partyQueue : row.trackId = trackId

\* DELETE FROM trackVotes WHERE trackId = ?
deleteVotes(d, trackId) ==
    [d EXCEPT !.trackVotes =
        [p \in Tracks \X IPs |-> IF p[1] = trackId THEN 0
                                 ELSE d.trackVotes[p]]]

\* DELETE FROM partyQueue WHERE trackId = ?
deleteTrack(d, trackId) ==
    [d EXCEPT !.partyQueue = {row \in @ : row.trackId # trackId}]

removeFromPartyQueue_queueOnly(d, trackId) ==
    [result |-> inPartyQueue(d, trackId), db |-> deleteTrack(d, trackId)]

\* removeFromPartyQueue: the two statements of its transaction, in their
\* order; what it returns (result.changes > 0) and the database it leaves
removeFromPartyQueue(d, trackId) ==
    LET d1 == deleteVotes(d, trackId)
    IN  [result |-> inPartyQueue(d1, trackId), db |-> deleteTrack(d1, trackId)]

\* clearPartyQueue: DELETE FROM trackVotes; DELETE FROM partyQueue, in one
\* transaction; it returns the number of queue rows deleted
clearPartyQueue(d) ==
    LET d1 == [d EXCEPT !.trackVotes = [p \in Tracks \X IPs |-> 0]]
    IN  [result |-> Cardinality(d1.partyQueue),
         db |-> [d1 EXCEPT !.partyQueue = {}]]

hasUserVoted_never(d, trackId, ip) == FALSE

\* SELECT COUNT(*) ... WHERE trackId = ? AND voterIp = ?  > 0
hasUserVoted(d, trackId, ip) == d.trackVotes[<<trackId, ip>>] > 0

\* INSERT OR IGNORE under UNIQUE(trackId, voterIp)
addVote(d, trackId, ip) ==
    IF d.trackVotes[<<trackId, ip>>] > 0 THEN d
    ELSE [d EXCEPT !.trackVotes[<<trackId, ip>>] = @ + 1]

\* DELETE FROM trackVotes WHERE trackId = ? AND voterIp = ?
removeVote(d, trackId, ip) == [d EXCEPT !.trackVotes[<<trackId, ip>>] = 0]

RECURSIVE SumVotes(_, _, _)
SumVotes(d, trackId, ips) ==
    IF ips = {} THEN 0
    ELSE LET ip == CHOOSE x \in ips : TRUE
         IN  d.trackVotes[<<trackId, ip>>] + SumVotes(d, trackId, ips \ {ip})

\* SELECT COUNT(*) FROM trackVotes WHERE trackId = ?
getVotesForTrack(d, trackId) == SumVotes(d, trackId, IPs)

\* ADMIN_SESSION_EXPIRY, in seconds
ADMIN_SESSION_EXPIRY == 86400

\* INSERT INTO adminSessions (the token has no row yet)
createAdminSession(d, token, expiresIn, t) ==
    [d EXCEPT !.adminSessions[token] = t + expiresIn * 1000]

\* DELETE FROM adminSessions WHERE token = ?
deleteAdminSession(d, token) == [d EXCEPT !.adminSessions[token] = Null]

isValid_inclusive(expiresAt, t) == expiresAt >= t

\* validateAdminSession: const isValid = result.expiresAt > now
isValid(expiresAt, t) == expiresAt > t

\* validateAdminSession: what it returns and the database it leaves
validateAdminSession(d, token, t) ==
    IF d.adminSessions[token] = Null THEN [result |-> FALSE, db |-> d]
    ELSE IF isValid(d.adminSessions[token], t) THEN [result |-> TRUE, db |-> d]
    ELSE [result |-> FALSE, db |-> deleteAdminSession(d, token)]

\* cleanupExpiredSessions: DELETE FROM adminSessions WHERE expiresAt <= ?
expiredSessions(d, t) ==
    {k \in AdminTokens : d.adminSessions[k] # Null /\ d.adminSessions[k] <= t}
cleanupExpiredSessions(d, t) ==
    [d EXCEPT !.adminSessions =
        [k \in AdminTokens |-> IF k \in expiredSessions(d, t) THEN Null
                               ELSE d.adminSessions[k]]]

\* POST /api/queue: the check made before spotifyFetch is called
trackLimitHit(d, ip) ==
    enforceTrackLimits /\ getUserTrackCount(d, ip) >= MAX_TRACKS_PER_IP

queueFinish_countsEveryAnswer(res, o, d, ip, trackId) ==
    IF res = "throw" THEN [status |-> 500, data |-> Null, db |-> d]
    ELSE LET d1 == incrementUserTrackCount(d, ip)
         IN  IF o.status \in {200, 204}
             THEN [status |-> 200,
                   data |-> MAX_TRACKS_PER_IP - getUserTrackCount(d1, ip),
                   db |-> addToPartyQueue(d1, trackId, ip)]
             ELSE [status |-> o.status, data |-> Null, db |-> d1]

\* POST /api/queue after `await spotifyFetch(...)`: the status sent, the
\* `remaining` member of the answer and the database left behind.
queueFinish(res, o, d, ip, trackId) ==
    IF res = "throw" THEN [status |-> 500, data |-> Null, db |-> d]
    ELSE IF o.status \in {200, 204}
    THEN LET d1 == incrementUserTrackCount(d, ip)
         IN  [status |-> 200,
              data |-> MAX_TRACKS_PER_IP - getUserTrackCount(d1, ip),
              db |-> addToPartyQueue(d1, trackId, ip)]
    ELSE [status |-> o.status, data |-> Null, db |-> d]

----------------------------------------------------------------------------
(* Initial state: the module-level `let` declarations *)

Init ==
    /\ now = 1000000
    /\ ticks = 0
    /\ tokenData = EmptyToken
    /\ playbackCache = EmptyCache
    /\ spotifyQueueCache = EmptyCache
    /\ useDynamic \in BOOLEAN
    /\ currentOAuthState = Null
    /\ nStates = 0
    /\ oauthCallbackServer = "null"
    /\ oauthCallbackPort = Null
    /\ servers = <<>>
    /\ loginWait = FALSE
    /\ exch = 0
    /\ reqs = [r \in Reqs |-> IdleReq]
    /\ db = EmptyDb
    /\ sessionExpired = FALSE
    /\ attemptPhase = "Idle"
    /\ last = [op |-> "start"]

\* The continuation of `await refreshAccessToken()` in ensureToken is queued
\* as a microtask; it runs before the event loop serves anything else.  So
\* does the rest of /login after listen(0, '127.0.0.1'): for an IP literal
\* the 'listening' or 'error' event is emitted from the next-tick queue.
MicrotaskPending ==
    \/ \E r \in Reqs : reqs[r].pc = "refreshReturned"
    \/ loginWait

authVars == <<useDynamic, currentOAuthState, nStates, oauthCallbackServer,
              oauthCallbackPort, servers, loginWait, exch, attemptPhase>>
cacheVars == <<playbackCache, spotifyQueueCache>>

\* The clock advances by d milliseconds.
Advance(d) ==
    /\ ~MicrotaskPending
    /\ now' = now + d
    /\ ticks' = ticks + 1
    /\ UNCHANGED <<tokenData, cacheVars, db, authVars, reqs, sessionExpired, last>>

Tick(d) == ticks < MaxTicks /\ Advance(d)

----------------------------------------------------------------------------
(* Guarded routes: ensureToken, then the route handler *)

\* The route handler up to its first await: the `if (!uri)` test and the
\* track-limit check of POST /api/queue, the cache check of /api/playback
\* and /api/spotify-queue, then the call of spotifyFetch (attempt 0 is
\* sent).  uri is req.body.uri, "" when the body has none.
RouteHandler(r, route, uri) ==
    LET cache == IF route = "playback" THEN playbackCache
                 ELSE spotifyQueueCache
    IN  IF route = "queue" /\ uri = ""
        THEN /\ reqs' = [reqs EXCEPT ![r] = IdleReq]
             /\ last' = [op |-> "route", req |-> r, route |-> route,
                         status |-> 400, data |-> 0,
                         fromCache |-> FALSE, age |-> 0,
                         result |-> "none", hist |-> <<>>]
        ELSE IF route = "queue" /\ trackLimitHit(db, getClientIP(r))
        THEN /\ reqs' = [reqs EXCEPT ![r] = IdleReq]
             /\ last' = [op |-> "route", req |-> r, route |-> route,
                         status |-> 429, data |-> 0,
                         fromCache |-> FALSE, age |-> 0,
                         result |-> "none", hist |-> <<>>]
        ELSE IF route \in {"playback", "spotify-queue"}
                /\ isCacheValid(cache, now)
        THEN /\ reqs' = [reqs EXCEPT ![r] = IdleReq]
             /\ last' = [op |-> "route", req |-> r, route |-> route,
                         status |-> 200, data |-> cache.data,
                         fromCache |-> TRUE, age |-> now - cache.timestamp,
                         result |-> "none", hist |-> <<>>]
        ELSE /\ reqs' = [reqs EXCEPT ![r] =
                            [pc |-> "fetchWait", route |-> route,
                             reqNow |-> now, attempt |-> 0, hist |-> <<>>,
                             refreshed |-> reqs[r].refreshed, wake |-> 0,
                             timers |-> setTimeout(reqs[r].timers, 0, now),
                             bearers |-> <<authorization(tokenData, <<>>)>>,
                             uri |-> uri]]
             /\ last' = [op |-> "fetchCall", req |-> r, route |-> route]

\* A request for a guarded route arrives with uri in its body: ensureToken
\* up to its first await.
RequestArriveWith(r, route, uri) ==
    /\ ~MicrotaskPending
    /\ reqs[r].pc = "idle"
    /\ IF ~hasAccessToken(tokenData)
       THEN /\ last' = [op |-> "guard", req |-> r, route |-> route,
                        status |-> 401, verdict |-> "not_authenticated"]
            /\ reqs' = reqs
       ELSE IF needsRefresh(tokenData, now)
       THEN \* refreshAccessToken() is called; without a refresh token it
            \* returns false before any fetch
            /\ reqs' = [reqs EXCEPT ![r] =
                  [IdleReq EXCEPT !.route = route, !.uri = uri,
                      !.pc = IF ~hasRefreshToken(tokenData)
                             THEN "refreshReturned" ELSE "refreshWait"]]
            /\ last' = [op |-> "refreshCall", req |-> r,
                        sent |-> hasRefreshToken(tokenData)]
       ELSE RouteHandler(r, route, uri)
    /\ UNCHANGED <<now, ticks, tokenData, cacheVars, db, authVars, sessionExpired>>

\* A request of slot r: its body names the track of that slot.
RequestArrive(r, route) == RequestArriveWith(r, route, uriOf(r))

\* The token endpoint answers a refresh grant (or the fetch rejects):
\* the rest of refreshAccessToken.
RefreshRespond(r, resp) ==
    /\ ~MicrotaskPending
    /\ reqs[r].pc = "refreshWait"
    /\ tokenData' = IF resp.kind = "ok"
                    THEN refreshWrite(tokenData, resp, now)
                    ELSE refreshFailure(tokenData)
    /\ reqs' = [reqs EXCEPT ![r].pc = "refreshReturned",
                            ![r].refreshed = (resp.kind = "ok")]
    /\ last' = [op |-> "refresh", req |-> r, resp |-> resp,
                ok |-> (resp.kind = "ok")]
    /\ UNCHANGED <<now, ticks, cacheVars, db, authVars, sessionExpired>>

\* ensureToken after `await refreshAccessToken()`.
EnsureTokenResume(r) ==
    /\ reqs[r].pc = "refreshReturned"
    /\ IF ~reqs[r].refreshed
       THEN /\ tokenData' = EmptyToken
            /\ sessionExpired' = TRUE
            /\ reqs' = [reqs EXCEPT ![r] = IdleReq]
            /\ last' = [op |-> "guard", req |-> r, route |-> reqs[r].route,
                        status |-> 401, verdict |-> "session_expired"]
       ELSE /\ tokenData' = tokenData
            /\ sessionExpired' = sessionExpired
            /\ RouteHandler(r, reqs[r].route, reqs[r].uri)
    /\ UNCHANGED <<now, ticks, cacheVars, db, authVars>>

\* One attempt of spotifyFetch ends in outcome o: the loop body after the
\* await of fetch, and, when the call returns or throws, the rest of the
\* route handler.
UpstreamRespond(r, o) ==
    /\ ~MicrotaskPending
    /\ reqs[r].pc = "fetchWait"
    /\ LET a == reqs[r].attempt
           h == Append(reqs[r].hist, HistEntry(o))
           step == spotifyFetchStep(a, o)
           route == reqs[r].route
           res == IF step = "return" THEN "response" ELSE "throw"
           fin == IF route = "playback"
                  THEN playbackFinish(res, o, reqs[r].reqNow, playbackCache)
                  ELSE spotifyQueueFinish(res, o, reqs[r].reqNow,
                                           spotifyQueueCache)
           sf == searchFinish(res, o)
           qf == queueFinish(res, o, db, getClientIP(r), reqs[r].uri)
       IN  IF step = "retry"
           THEN /\ reqs' = [reqs EXCEPT ![r].pc = "backoff", ![r].hist = h,
                                        ![r].wake = now + delayMs(a),
                                        ![r].timers = clearTimeout(@, a)]
                /\ UNCHANGED <<cacheVars, db, last>>
           ELSE /\ db' = IF route = "queue" THEN qf.db ELSE db
                /\ reqs' = [reqs EXCEPT ![r] =
                               [IdleReq EXCEPT !.timers =
                                   clearTimeout(reqs[r].timers, a)]]
                /\ playbackCache' = IF route = "playback" THEN fin.cache
                                    ELSE playbackCache
                /\ spotifyQueueCache' = IF route = "spotify-queue"
                                        THEN fin.cache ELSE spotifyQueueCache
                /\ last' = [op |-> "route", req |-> r, route |-> route,
                            status |-> IF route = "search" THEN sf.status
                                       ELSE IF route = "queue" THEN qf.status
                                       ELSE fin.status,
                            data |-> IF route = "search" THEN sf.data
                                     ELSE IF route = "queue" THEN qf.data
                                     ELSE fin.data,
                            error |-> routeError(route, res, o, a),
                            text |-> errorText(o),
                            fromCache |-> FALSE, age |-> 0,
                            result |-> res, hist |-> h]
    /\ UNCHANGED <<now, ticks, tokenData, authVars, sessionExpired>>

\* The backoff timer of a retrying call fires: the next attempt is sent.
BackoffDone(r) ==
    /\ ~MicrotaskPending
    /\ reqs[r].pc = "backoff"
    /\ now >= reqs[r].wake
    /\ reqs' = [reqs EXCEPT ![r].pc = "fetchWait",
                            ![r].attempt = reqs[r].attempt + 1,
                            ![r].timers = setTimeout(@, reqs[r].attempt + 1,
                                                     now),
                            ![r].bearers =
                                Append(@, authorization(tokenData, @))]
    /\ UNCHANGED <<now, ticks, tokenData, cacheVars, db, authVars, sessionExpired,
                   last>>

\* The timeout timer t of a call fires: controller.abort() of the attempt
\* that created it.  If that attempt's fetch is still pending it rejects
\* with an AbortError and the catch block of spotifyFetch runs.
TimerFire(r, t) ==
    /\ ~MicrotaskPending
    /\ t \in reqs[r].timers
    /\ now >= t.due
    /\ IF reqs[r].pc = "fetchWait" /\ reqs[r].attempt = t.attempt
       THEN UpstreamRespond(r, [kind |-> "error", status |-> 0,
                                body |-> Null, err |-> "AbortError"])
       ELSE /\ reqs' = [reqs EXCEPT ![r].timers = @ \ {t}]
            /\ UNCHANGED <<now, ticks, tokenData, cacheVars, db, authVars,
                           sessionExpired, last>>

\* POST /api/vote/:trackId from address ip (the handler is synchronous)
Vote(trackId, ip) ==
    /\ ~MicrotaskPending
    /\ IF ~inPartyQueue(db, trackId)
       THEN /\ db' = db
            /\ last' = [op |-> "vote", trackId |-> trackId, ip |-> ip,
                        status |-> 404, votes |-> 0, hasVoted |-> FALSE]
       ELSE IF hasUserVoted(db, trackId, ip)
       THEN /\ db' = removeVote(db, trackId, ip)
            /\ last' = [op |-> "vote", trackId |-> trackId, ip |-> ip,
                        status |-> 200,
                        votes |-> getVotesForTrack(db', trackId),
                        hasVoted |-> FALSE]
       ELSE /\ db' = addVote(db, trackId, ip)
            /\ last' = [op |-> "vote", trackId |-> trackId, ip |-> ip,
                        status |-> 200,
                        votes |-> getVotesForTrack(db', trackId),
                        hasVoted |-> TRUE]
    /\ UNCHANGED <<now, ticks, tokenData, cacheVars, authVars, reqs,
                   sessionExpired>>

\* The database calls and routes below are synchronous: each is one step.
DbStep ==
    /\ ~MicrotaskPending
    /\ UNCHANGED <<now, ticks, tokenData, cacheVars, authVars, reqs,
                   sessionExpired>>

\* db.createAdminSession(token, expiresIn); a token that already has a row
\* violates the primary key and the call throws.
CreateAdminSession(token, expiresIn) ==
    /\ DbStep
    /\ IF db.adminSessions[token] # Null
       THEN /\ db' = db
            /\ last' = [op |-> "createAdminSession", token |-> token,
                        row |-> db.adminSessions[token], result |-> FALSE]
       ELSE /\ db' = createAdminSession(db, token, expiresIn, now)
            /\ last' = [op |-> "createAdminSession", token |-> token,
                        row |-> Null, result |-> TRUE]

\* POST /api/admin/login: with the right password a fresh token gets a
\* session of ADMIN_SESSION_EXPIRY seconds
AdminLogin(passwordOk) ==
    /\ DbStep
    /\ IF ~passwordOk
       THEN /\ db' = db
            /\ last' = [op |-> "adminLogin", token |-> "", row |-> Null,
                        result |-> FALSE]
       ELSE \E token \in AdminTokens :
               /\ db.adminSessions[token] = Null
               /\ db' = createAdminSession(db, token, ADMIN_SESSION_EXPIRY,
                                           now)
               /\ last' = [op |-> "adminLogin", token |-> token,
                           row |-> Null, result |-> TRUE]

\* db.validateAdminSession(token)
ValidateAdminSession(token) ==
    /\ DbStep
    /\ db' = validateAdminSession(db, token, now).db
    /\ last' = [op |-> "validateAdminSession", token |-> token,
                row |-> db.adminSessions[token],
                result |-> validateAdminSession(db, token, now).result]

\* db.deleteAdminSession(token)
DeleteAdminSession(token) ==
    /\ DbStep
    /\ db' = deleteAdminSession(db, token)
    /\ last' = [op |-> "deleteAdminSession", token |-> token,
                row |-> db.adminSessions[token],
                result |-> db.adminSessions[token] # Null]

\* db.cleanupExpiredSessions(), run at startup and every hour
CleanupExpiredSessions ==
    /\ DbStep
    /\ db' = cleanupExpiredSessions(db, now)
    /\ last' = [op |-> "cleanupExpiredSessions", token |-> "", row |-> Null,
                removed |-> Cardinality(expiredSessions(db, now))]

\* requireAdmin in front of a synchronous admin route; header is the token
\* of the Authorization header, "" when the header is missing.
RequireAdmin(header) ==
    /\ DbStep
    /\ IF header = ""
       THEN /\ db' = db
            /\ last' = [op |-> "requireAdmin", token |-> header,
                        row |-> Null, status |-> 401]
       ELSE /\ db' = validateAdminSession(db, header, now).db
            /\ last' = [op |-> "requireAdmin", token |-> header,
                        row |-> db.adminSessions[header],
                        status |-> IF validateAdminSession(db, header,
                                                           now).result
                                   THEN 200 ELSE 403]

\* db.addVote(trackId, voterIP), called on the database module
AddVote(trackId, ip) ==
    /\ DbStep
    /\ db' = addVote(db, trackId, ip)
    /\ last' = [op |-> "addVote", trackId |-> trackId,
                result |-> ~hasUserVoted(db, trackId, ip)]

\* db.removeFromPartyQueue(trackId), called on the database module
RemoveFromPartyQueue(trackId) ==
    /\ DbStep
    /\ db' = removeFromPartyQueue(db, trackId).db
    /\ last' = [op |-> "removeFromPartyQueue", trackId |-> trackId,
                result |-> removeFromPartyQueue(db, trackId).result]

\* db.clearPartyQueue(), called on the database module
ClearPartyQueue ==
    /\ DbStep
    /\ db' = clearPartyQueue(db).db
    /\ last' = [op |-> "clearPartyQueue", trackId |-> "",
                cleared |-> clearPartyQueue(db).result]

\* requireAdmin, then next() when it lets the request through: the status
\* it answers with (200 for next()) and the database it leaves
requireAdmin(d, header, t) ==
    IF header = "" THEN [status |-> 401, db |-> d]
    ELSE [status |-> IF validateAdminSession(d, header, t).result
                     THEN 200 ELSE 403,
          db |-> validateAdminSession(d, header, t).db]

\* DELETE /api/admin/queue/:trackId
AdminRemoveTrack(header, trackId) ==
    /\ DbStep
    /\ LET adm == requireAdmin(db, header, now)
           found == inPartyQueue(adm.db, trackId)
           rm == removeFromPartyQueue(adm.db, trackId)
       IN  IF adm.status # 200
           THEN /\ db' = adm.db
                /\ last' = [op |-> "adminRemoveTrack", trackId |-> trackId,
                            status |-> adm.status]
           ELSE IF ~found
           THEN /\ db' = adm.db
                /\ last' = [op |-> "adminRemoveTrack", trackId |-> trackId,
                            status |-> 404]
           ELSE /\ db' = rm.db
                /\ last' = [op |-> "adminRemoveTrack", trackId |-> trackId,
                            status |-> IF rm.result THEN 200 ELSE 500]

\* DELETE /api/admin/queue
AdminClearQueue(header) ==
    /\ DbStep
    /\ LET adm == requireAdmin(db, header, now)
       IN  IF adm.status # 200
           THEN /\ db' = adm.db
                /\ last' = [op |-> "adminClearQueue", trackId |-> "",
                            status |-> adm.status]
           ELSE /\ db' = clearPartyQueue(adm.db).db
                /\ last' = [op |-> "adminClearQueue", trackId |-> "",
                            status |-> 200]

\* GET /api/status; the credentials SPOTIFY_CLIENT_ID and
\* SPOTIFY_CLIENT_SECRET are set, so `configured` is !!(truthy) = true.
Status ==
    /\ ~MicrotaskPending
    /\ last' = [op |-> "status", status |-> "ok",
                authenticated |-> isAuthenticatedValue(tokenData, now),
                configured |-> JsBoolean(TRUE)]
    /\ UNCHANGED <<now, ticks, tokenData, cacheVars, db, authVars, reqs,
                   sessionExpired>>

\* POST /api/logout
Logout ==
    /\ ~MicrotaskPending
    /\ tokenData' = EmptyToken
    /\ last' = [op |-> "logout"]
    /\ UNCHANGED <<now, ticks, cacheVars, db, authVars, reqs, sessionExpired>>

----------------------------------------------------------------------------
(* OAuth flow: /login, the loopback callback server, the two /callback      *)
(* handlers and exchangeCodeForTokens                                       *)

\* `if (error)`, `if (!code)`: an absent query parameter is falsy
truthy(x) == x # Undefined /\ x # Null

stateMatches_always(state, cur) == TRUE

stateMatches_anyIssued(state, cur) == state >= 1 /\ state <= cur

stateMatches_looseEquality(state, cur) ==
    state = cur \/ (state = Undefined /\ cur = Null)

\* `state !== currentOAuthState` negated: strict equality, so an absent
\* parameter (undefined) does not equal an empty slot (null)
stateMatches(state, cur) == state = cur

\* The checks of a /callback handler, in the order of the code
callbackDecision(state, code, error, cur) ==
    IF ~stateMatches(state, cur) THEN "invalid_state"
    ELSE IF truthy(error) THEN "error"
    ELSE IF ~truthy(code) THEN "no_code"
    ELSE "exchange"

\* Error codes the authorization server puts in the `error` parameter; the
\* parameter carries the index, encodeURIComponent leaves the code as it is.
ErrorCodes == <<"access_denied", "server_error">>
encodeURIComponent(error) == ErrorCodes[error]

LoopbackAddress_allInterfaces == "0.0.0.0"

\* The host argument of callbackApp.listen(0, '127.0.0.1', ...)
LoopbackAddress == "127.0.0.1"

\* A server object returned by listen(), before its callback has run
NewServer == [address |-> LoopbackAddress, port |-> Null, listening |-> FALSE]

\* getSpotifyRedirectUri() in dynamic mode: the port, or Null
getSpotifyRedirectUri == oauthCallbackPort

\* The redirect_uri put in the authorization URL: in dynamic mode
\* `http://127.0.0.1:${oauthCallbackPort}/callback`, else the configured one
redirectUri(dynamic, port) ==
    IF dynamic
    THEN [scheme |-> "http", host |-> "127.0.0.1", port |-> port,
          path |-> "/callback"]
    ELSE [scheme |-> "env", host |-> "SPOTIFY_REDIRECT_URI", port |-> Null,
          path |-> ""]

callbackServerMissing_always(server) == TRUE

\* /login: `if (!oauthCallbackServer)`
callbackServerMissing(server) == server = "null"

\* /login after the redirect URI is known: a new state value is generated
\* and stored in the single slot, then the browser is redirected.
IssueAuthorizationUrl ==
    /\ nStates' = nStates + 1
    /\ currentOAuthState' = nStates + 1
    /\ attemptPhase' = "AwaitingCallback"
    /\ last' = [op |-> "login", status |-> 302, state |-> nStates + 1,
                port |-> IF useDynamic THEN oauthCallbackPort' ELSE Null,
                redirectUri |-> redirectUri(useDynamic, oauthCallbackPort')]

\* GET /login up to its first await (or to its end)
Login ==
    /\ ~MicrotaskPending
    /\ nStates < MaxLogins
    /\ IF useDynamic /\ callbackServerMissing(oauthCallbackServer)
       THEN \* startOAuthCallbackServer(): listen(0, '127.0.0.1') is called,
            \* the handler awaits the listen callback
            /\ oauthCallbackServer' = "binding"
            /\ servers' = Append(servers, NewServer)
            /\ loginWait' = TRUE
            /\ UNCHANGED <<oauthCallbackPort, nStates, currentOAuthState,
                           attemptPhase, last>>
       ELSE IF useDynamic /\ getSpotifyRedirectUri = Null
       THEN /\ last' = [op |-> "login", status |-> 500, state |-> Null,
                        port |-> Null,
                        body |-> "Failed to start OAuth callback server"]
            /\ UNCHANGED <<oauthCallbackServer, oauthCallbackPort, servers,
                           loginWait, nStates, currentOAuthState,
                           attemptPhase>>
       ELSE /\ UNCHANGED <<oauthCallbackServer, oauthCallbackPort, servers,
                           loginWait>>
            /\ IssueAuthorizationUrl
    /\ UNCHANGED <<now, ticks, tokenData, cacheVars, db, useDynamic, exch, reqs,
                   sessionExpired>>

\* The listen callback runs: the port is read back from the socket and the
\* waiting /login continues.
ListenOk(p) ==
    /\ oauthCallbackServer = "binding"
    /\ oauthCallbackServer' = "listening"
    /\ oauthCallbackPort' = p
    /\ servers' = [servers EXCEPT ![Len(servers)] =
                      [@ EXCEPT !.port = p, !.listening = TRUE]]
    /\ loginWait' = FALSE
    /\ IssueAuthorizationUrl
    /\ UNCHANGED <<now, ticks, tokenData, cacheVars, db, useDynamic, exch, reqs,
                   sessionExpired>>

\* The server emits 'error' instead: the promise rejects, /login answers 500.
\* oauthCallbackServer keeps the server object that failed to bind.
ListenError ==
    /\ oauthCallbackServer = "binding"
    /\ oauthCallbackServer' = "failed"
    /\ loginWait' = FALSE
    /\ last' = [op |-> "login", status |-> 500, state |-> Null, port |-> Null,
                body |-> "Failed to start OAuth flow"]
    /\ UNCHANGED <<now, ticks, tokenData, cacheVars, db, useDynamic,
                   currentOAuthState, nStates, oauthCallbackPort, servers,
                   exch, reqs, sessionExpired, attemptPhase>>

\* stopOAuthCallbackServer(): exported, called by the embedding process
stopOAuthCallbackServer ==
    /\ ~MicrotaskPending
    /\ IF oauthCallbackServer # "null"
       THEN /\ oauthCallbackServer' = "null"
            /\ oauthCallbackPort' = Null
            /\ servers' = SubSeq(servers, 1, Len(servers) - 1)
       ELSE UNCHANGED <<oauthCallbackServer, oauthCallbackPort, servers>>
    /\ last' = [op |-> "stop"]
    /\ UNCHANGED <<now, ticks, tokenData, cacheVars, db, useDynamic,
                   currentOAuthState, nStates, loginWait, exch, reqs,
                   sessionExpired, attemptPhase>>

\* The part of both /callback handlers after the query is read.
\* listener is "loopback" or "main".
HandleCallback(listener, state, code, error) ==
    LET d == callbackDecision(state, code, error, currentOAuthState)
        obs(status, reason, exchange) ==
            [op |-> "callback", listener |-> listener, state |-> state,
             code |-> code, error |-> error, expected |-> currentOAuthState,
             status |-> status, reason |-> reason, exchange |-> exchange,
             outcome |-> d]
        open == attemptPhase \in {"AwaitingCallback", "Exchanging"}
    IN  /\ IF d = "exchange"
           THEN /\ exch < MaxExch
                /\ exch' = exch + 1
                /\ last' = obs(0, "", TRUE)
           ELSE /\ exch' = exch
                /\ last' = IF d = "invalid_state"
                           THEN IF listener = "loopback"
                                THEN obs(400, "", FALSE)
                                ELSE obs(302, "invalid_state", FALSE)
                           ELSE IF d = "error"
                           THEN obs(302, encodeURIComponent(error), FALSE)
                           ELSE obs(302, "no_code", FALSE)
        /\ attemptPhase' = IF open /\ d = "exchange" THEN "Exchanging"
                           ELSE IF open /\ d \in {"error", "no_code"}
                           THEN "Ended"
                           ELSE attemptPhase

\* GET /callback on the loopback callback server (dynamic mode)
CallbackLoopback(state, code, error) ==
    /\ ~MicrotaskPending
    /\ oauthCallbackServer = "listening"
    /\ HandleCallback("loopback", state, code, error)
    /\ UNCHANGED <<now, ticks, tokenData, cacheVars, db, useDynamic,
                   currentOAuthState, nStates, oauthCallbackServer,
                   oauthCallbackPort, servers, loginWait, reqs,
                   sessionExpired>>

CallbackMain_noModeCheck(state, code, error) ==
    /\ ~MicrotaskPending
    /\ HandleCallback("main", state, code, error)
    /\ UNCHANGED <<now, ticks, tokenData, cacheVars, db, useDynamic,
                   currentOAuthState, nStates, oauthCallbackServer,
                   oauthCallbackPort, servers, loginWait, reqs,
                   sessionExpired>>

\* GET /callback on the main application
CallbackMain(state, code, error) ==
    /\ ~MicrotaskPending
    /\ IF useDynamic
       THEN /\ exch' = exch
            /\ attemptPhase' = attemptPhase
            /\ last' = [op |-> "callback", listener |-> "main",
                        state |-> state, code |-> code, error |-> error,
                        expected |-> currentOAuthState, status |-> 400,
                        reason |-> "", exchange |-> FALSE,
                        outcome |-> "wrong_endpoint"]
       ELSE HandleCallback("main", state, code, error)
    /\ UNCHANGED <<now, ticks, tokenData, cacheVars, db, useDynamic,
                   currentOAuthState, nStates, oauthCallbackServer,
                   oauthCallbackPort, servers, loginWait, reqs,
                   sessionExpired>>

\* The token endpoint answers an authorization-code grant: the rest of
\* exchangeCodeForTokens and of the callback handler that awaited it.
ExchangeRespond(resp) ==
    /\ ~MicrotaskPending
    /\ exch > 0
    /\ exch' = exch - 1
    /\ sessionExpired' = (sessionExpired /\ resp.kind # "ok")
    /\ tokenData' = IF resp.kind = "ok"
                    THEN exchangeWrite(tokenData, resp, now)
                    ELSE tokenData
    /\ attemptPhase' = IF attemptPhase = "Exchanging" /\ exch = 1
                       THEN "Ended"
                       ELSE attemptPhase
    /\ last' = [op |-> "exchange", resp |-> resp,
                reason |-> IF resp.kind = "ok" THEN "authenticated"
                           ELSE IF resp.kind = "http"
                           THEN "token_exchange_failed"
                           ELSE "callback_failed"]
    /\ UNCHANGED <<now, ticks, cacheVars, db, useDynamic, currentOAuthState,
                   nStates, oauthCallbackServer, oauthCallbackPort, servers,
                   loginWait, reqs>>

----------------------------------------------------------------------------
(* Inputs *)

QueryStates == {Undefined} \cup (1 .. MaxLogins)
QueryCodes == {Undefined, 1}
QueryErrors == {Undefined} \cup (1 .. Len(ErrorCodes))

Response(s) ==
    Outcome("response", s, IF s = 200 THEN CHOOSE b \in Bodies : TRUE
                            ELSE Null, "")
Rejection(e) == Outcome("error", 0, Null, e)

\* The server is started with SPOTIFY_REDIRECT_URI set (static mode).
InitStatic == Init /\ useDynamic = FALSE

\* The host signs in: the browser follows the authorization URL and comes
\* back with the state of the current attempt and a code.
HostCallback ==
    /\ currentOAuthState # Null
    /\ CallbackMain(currentOAuthState, 1, Undefined)

\* The host signs in once, before anything else happens: one login, one
\* callback, one successful exchange with a one-hour token.
SignedOut == tokenData = EmptyToken
HostLoginOnce == currentOAuthState = Null /\ Login
HostCallbackOnce == SignedOut /\ exch = 0 /\ HostCallback
HostExchange == ExchangeRespond(TokenResponse("ok", 200, 1, 1, 3600))

(* The token store and its guard.  The host opens /login once and signs in  *)
(* through the static redirect, any number of times with that state, one   *)
(* exchange at a time;                                                      *)
(* guarded requests, refreshes, logout and the clock interleave.            *)
(* An access token lives 301 s, so that one clock step of 1 s brings it to  *)
(* the edge of the 5-minute refresh buffer, one of 300 s inside the buffer, *)
(* and both together to its expiry.                                         *)

TokenDeltas == {1000, 300000}
TokenExpiresIn == {301}

Next ==
    \/ \E d \in TokenDeltas : ticks < MaxTokenTicks /\ Tick(d)
    \/ HostLoginOnce
    \/ exch = 0 /\ HostCallback
    \/ \E resp \in ExchangeResponses(TokenExpiresIn) : ExchangeRespond(resp)
    \/ \E r \in Reqs : RequestArrive(r, "search")
    \/ \E r \in Reqs, resp \in RefreshResponses(TokenExpiresIn) :
           RefreshRespond(r, resp)
    \/ \E r \in Reqs : EnsureTokenResume(r)
    \/ \E r \in Reqs : UpstreamRespond(r, Response(200))
    \/ Logout

Spec == InitStatic /\ [][Next]_vars

(* The OAuth flow in both modes: logins, the loopback listener, callbacks  *)
(* with every combination of state, code and error, and the exchange.      *)

OAuthExpiresIn == {3600}

NextOAuth ==
    \/ Login
    \/ \E p \in Ports : ListenOk(p)
    \/ ListenError
    \/ \E s \in QueryStates, c \in QueryCodes, e \in QueryErrors :
           CallbackLoopback(s, c, e)
    \/ \E s \in QueryStates, c \in QueryCodes, e \in QueryErrors :
           CallbackMain(s, c, e)
    \/ \E resp \in ExchangeResponses(OAuthExpiresIn) : ExchangeRespond(resp)
    \/ stopOAuthCallbackServer
    \/ Logout

SpecOAuth == Init /\ [][NextOAuth]_vars

(* The two caches.  The host signs in once with a one-hour token; then    *)
(* requests for /api/playback and /api/spotify-queue arrive one at a time,  *)
(* 1 ms or ttl - 1 ms apart; the upstream API answers with success, 204,    *)
(* 404, 503 or a network error.                                             *)

CacheDeltas == {1, CacheTtl - 1}
CacheOutcomes ==
    { Outcome("response", 200, b, "") : b \in Bodies }
    \cup { Response(204), Response(404), Response(503),
           Rejection("ENOTFOUND") }

NextCache ==
    \/ \E d \in CacheDeltas : ~SignedOut /\ Tick(d)
    \/ HostLoginOnce
    \/ HostCallbackOnce
    \/ HostExchange
    \/ \E route \in {"playback", "spotify-queue"} : RequestArrive("r1", route)
    \/ \E o \in CacheOutcomes : UpstreamRespond("r1", o)
    \/ BackoffDone("r1")

SpecCache == InitStatic /\ [][NextCache]_vars

(* The upstream client.  One request for /api/search at a time; each       *)
(* attempt ends in one of the statuses below or in a network error; the    *)
(* clock advances by the backoff delays.                                    *)

RetryDeltas == {1000, 2000, 4000}
RetryStatuses == {200, 400, 401, 403, 404, 408, 429, 500, 502, 503, 504}
RetryErrors ==
    {"AbortError", "fetch failed", "ECONNRESET", "ETIMEDOUT", "ENOTFOUND"}
\* A 429 that carries a Retry-After header of 7 seconds
RateLimited ==
    [kind |-> "response", status |-> 429, body |-> Null, err |-> "",
     retryAfter |-> 7]
RetryOutcomes ==
    { Response(st) : st \in RetryStatuses }
    \cup { Rejection(e) : e \in RetryErrors }
    \cup { RateLimited }

NextRetry ==
    \/ \E d \in RetryDeltas : ~SignedOut /\ Tick(d)
    \/ HostLoginOnce
    \/ HostCallbackOnce
    \/ HostExchange
    \/ RequestArrive("r1", "search")
    \/ \E o \in RetryOutcomes : UpstreamRespond("r1", o)
    \/ BackoffDone("r1")

SpecRetry == InitStatic /\ [][NextRetry]_vars

(* The status route.  The host signs in with a one-hour token and may     *)
(* sign out; the clock reaches the expiry of the token exactly; the status  *)
(* is asked for at any time.                                                *)

StatusDeltas == {1000, 3599000}

NextStatus ==
    \/ \E d \in StatusDeltas : Tick(d)
    \/ HostLoginOnce
    \/ HostCallbackOnce
    \/ HostExchange
    \/ Logout
    \/ Status

SpecStatus == InitStatic /\ [][NextStatus]_vars

(* Admin sessions.  Sessions of 1 and 2 seconds are created through the   *)
(* database module, sessions of ADMIN_SESSION_EXPIRY through the login      *)
(* route; the clock advances a second at a time.                            *)

AdminDeltas == {1000}
AdminExpiresIn == {1, 2}

NextAdmin ==
    \/ \E d \in AdminDeltas : Tick(d)
    \/ \E k \in AdminTokens, e \in AdminExpiresIn : CreateAdminSession(k, e)
    \/ \E passwordOk \in BOOLEAN : AdminLogin(passwordOk)
    \/ \E k \in AdminTokens : ValidateAdminSession(k)
    \/ \E k \in AdminTokens : DeleteAdminSession(k)
    \/ CleanupExpiredSessions
    \/ \E h \in AdminTokens \cup {""} : RequireAdmin(h)

SpecAdmin == InitStatic /\ [][NextAdmin]_vars

(* The party queue.  Two requests of one guest for POST /api/queue may be  *)
(* in flight at once; the upstream API accepts the track (204), has no      *)
(* active device (404) or refuses (403).  Guests at two addresses vote.     *)

QueueOutcomes == {Response(204), Response(404), Response(403)}

NextParty ==
    \/ HostLoginOnce
    \/ HostCallbackOnce
    \/ HostExchange
    \/ \E r \in Reqs : RequestArrive(r, "queue")
    \/ \E r \in Reqs, o \in QueueOutcomes : UpstreamRespond(r, o)
    \/ \E trackId \in Tracks, ip \in IPs : Vote(trackId, ip)

SpecParty == InitStatic /\ [][NextParty]_vars

(* The token an attempt carries.  While a call for /api/search is being    *)
(* retried the host may sign out and sign in again, which replaces the     *)
(* token in the store.                                                     *)

BearerDeltas == {2000}
BearerOutcomes == {Response(200), Response(503)}

NextBearer ==
    \/ \E d \in BearerDeltas : ~SignedOut /\ Tick(d)
    \/ HostLoginOnce
    \/ exch = 0 /\ HostCallback
    \/ \E at \in Tokens : ExchangeRespond(TokenResponse("ok", 200, at, at, 3600))
    \/ Logout
    \/ RequestArrive("r1", "search")
    \/ \E o \in BearerOutcomes : UpstreamRespond("r1", o)
    \/ BackoffDone("r1")

SpecBearer == InitStatic /\ [][NextBearer]_vars

(* Timeouts.  Two requests for /api/search may be in flight at once; an   *)
(* attempt is answered with 200 or 503, or not at all, and then its timer   *)
(* fires once the clock has reached its deadline.                           *)

MaxTimeoutTicks == 4
TimeoutDeltas == {10000}
TimeoutOutcomes == {Response(200), Response(503)}

NextTimeout ==
    \/ \E d \in TimeoutDeltas :
           ~SignedOut /\ ticks < MaxTimeoutTicks /\ Advance(d)
    \/ HostLoginOnce
    \/ HostCallbackOnce
    \/ HostExchange
    \/ \E r \in Reqs : RequestArrive(r, "search")
    \/ \E r \in Reqs, o \in TimeoutOutcomes : UpstreamRespond(r, o)
    \/ \E r \in Reqs : BackoffDone(r)
    \/ \E r \in Reqs : \E t \in reqs[r].timers : TimerFire(r, t)

SpecTimeout == InitStatic /\ [][NextTimeout]_vars

(* Upstream errors seen through /api/search.  Each attempt ends in a      *)
(* client error or a server error whose body is a JSON error object, plain  *)
(* text or empty.                                                           *)

ErrorStatuses == {400, 403, 503}
SearchErrorTexts ==
    {EmptyText,
     Text("{\"error\":{\"status\":403,\"message\":\"Restriction violated\"}}",
          FALSE),
     Text("Service unavailable", TRUE)}
ErrorResponse(st, text) ==
    [kind |-> "response", status |-> st, body |-> Null, err |-> "",
     text |-> text]
ErrorOutcomes ==
    { ErrorResponse(st, text) : st \in ErrorStatuses,
                                text \in SearchErrorTexts }

NextError ==
    \/ \E d \in RetryDeltas : ~SignedOut /\ Tick(d)
    \/ HostLoginOnce
    \/ HostCallbackOnce
    \/ HostExchange
    \/ RequestArrive("r1", "search")
    \/ \E o \in ErrorOutcomes : UpstreamRespond("r1", o)
    \/ BackoffDone("r1")

SpecError == InitStatic /\ [][NextError]_vars

(* The error-body parser on its own: it is applied to every body text     *)
(* below, read or not readable, with each fallback message of its callers.  *)

ErrorCores ==
    {"",
     "{\"error\":{\"status\":403,\"message\":\"Restriction violated\"}}",
     "{\"error\":{\"status\":403,\"message\":\"\"}}",
     "{\"error\":{\"status\":403}}",
     "{\"error\":\"invalid_grant\"}",
     "{\"status\":500,\"reason\":\"Internal error\"}",
     "503",
     "null",
     "Service unavailable",
     "<html><body>Gateway Timeout</body></html>",
     "{\"error\": {\"message\": incomplete"}
ErrorTexts == {Text(c, p) : c \in ErrorCores, p \in BOOLEAN}
Fallbacks == {"Search failed", "Failed to get queue", "Failed to add to queue"}

\* One call of parseSpotifyErrorResponse
ParseCall(text, used, fallbackMessage) ==
    /\ last' = [op |-> "parse", text |-> text, bodyUsed |-> used,
                fallback |-> fallbackMessage,
                result |-> parseSpotifyErrorResponse(text, used,
                                                     fallbackMessage)]
    /\ UNCHANGED <<now, ticks, tokenData, cacheVars, db, authVars, reqs,
                   sessionExpired>>

NextParse ==
    \E text \in ErrorTexts, used \in BOOLEAN, f \in Fallbacks :
        ParseCall(text, used, f)

SpecParse == InitStatic /\ [][NextParse]_vars

(* Termination of a call.  One request for /api/search at a time; each     *)
(* attempt is answered with a success, a client error, a server error or a  *)
(* network error, or is not answered and is aborted by its timer.  The      *)
(* clock moves from one pending deadline (timeout or backoff) to the next;  *)
(* timers that are due fire.                                                *)

TerminateOutcomes ==
    {Response(200), Response(404), Response(503),
     Rejection("ECONNRESET"), Rejection("ENOTFOUND")}

\* The deadlines of the timers the calls in flight have pending: the
\* timeout of the attempt in flight, the end of a backoff wait
Deadlines ==
    UNION {{t.due : t \in reqs[r].timers} : r \in Reqs}
    \cup {reqs[r].wake : r \in {x \in Reqs : reqs[x].pc = "backoff"}}

\* Time passes until the next deadline
Elapse ==
    \E due \in Deadlines :
        /\ due > now
        /\ \A e \in Deadlines : e > now => e >= due
        /\ Advance(due - now)

TimeoutFires(r) == \E t \in reqs[r].timers : TimerFire(r, t)

NextTerminate ==
    \/ Elapse
    \/ HostLoginOnce
    \/ HostCallbackOnce
    \/ HostExchange
    \/ ticks < MaxTicks /\ RequestArrive("r1", "search")
    \/ \E o \in TerminateOutcomes : UpstreamRespond("r1", o)
    \/ BackoffDone("r1")
    \/ TimeoutFires("r1")

\* Node's timers: time passes, and a timer that is due runs its callback.
SpecTerminate ==
    /\ InitStatic
    /\ [][NextTerminate]_vars
    /\ WF_vars(Elapse)
    /\ WF_vars(BackoffDone("r1"))
    /\ WF_vars(TimeoutFires("r1"))

(* Adding tracks.  Two requests of one guest for POST /api/queue may be    *)
(* in flight at once, with or without a uri in the body; the upstream API   *)
(* accepts the track (200, 204), has no active device (404), refuses (403), *)
(* is unavailable (503, retried after the backoff) or cannot be reached.    *)

AddDeltas == {1000}
AddOutcomes ==
    {Response(200), Response(204), Response(404), Response(403),
     Response(503), Rejection("ENOTFOUND")}

NextAdd ==
    \/ \E d \in AddDeltas : ~SignedOut /\ Tick(d)
    \/ HostLoginOnce
    \/ HostCallbackOnce
    \/ HostExchange
    \/ \E r \in Reqs : RequestArrive(r, "queue")
    \/ \E r \in Reqs : RequestArriveWith(r, "queue", "")
    \/ \E r \in Reqs, o \in AddOutcomes : UpstreamRespond(r, o)
    \/ \E r \in Reqs : BackoffDone(r)

SpecAdd == InitStatic /\ [][NextAdd]_vars

(* Removing tracks.  Guests queue tracks and vote; the admin signs in and  *)
(* removes one track or clears the queue through the admin routes; the     *)
(* database module is also called directly, as its tests do, which can      *)
(* leave a vote for a track that was never queued (t3).                     *)

QueuedTracks == {uriOf(r) : r \in Reqs}
RemoveTracks == {"t1", "t3"}

NextRemove ==
    \/ HostLoginOnce
    \/ HostCallbackOnce
    \/ HostExchange
    \/ \E r \in Reqs : RequestArrive(r, "queue")
    \/ \E r \in Reqs : UpstreamRespond(r, Response(204))
    \/ \E trackId \in QueuedTracks, ip \in IPs : Vote(trackId, ip)
    \/ AddVote("t3", "10.0.0.2")
    \/ (\A k \in AdminTokens : db.adminSessions[k] = Null) /\ AdminLogin(TRUE)
    \/ \E h \in AdminTokens \cup {""}, trackId \in Tracks :
           AdminRemoveTrack(h, trackId)
    \/ \E h \in AdminTokens \cup {""} : AdminClearQueue(h)
    \/ \E trackId \in RemoveTracks : RemoveFromPartyQueue(trackId)
    \/ ClearPartyQueue

SpecRemove == InitStatic /\ [][NextRemove]_vars

(* Concurrent cache misses.  Two requests for /api/playback or             *)
(* /api/spotify-queue may be in flight at once, started a second apart; the *)
(* upstream API answers each attempt with a payload, with "nothing playing" *)
(* (204) or with 503, which is retried after the backoff.                   *)

MissDeltas == {1000}
MissOutcomes ==
    { Outcome("response", 200, b, "") : b \in Bodies }
    \cup { Response(204), Response(503) }

NextMiss ==
    \/ \E d \in MissDeltas : ~SignedOut /\ Tick(d)
    \/ HostLoginOnce
    \/ HostCallbackOnce
    \/ HostExchange
    \/ \E r \in Reqs, route \in {"playback", "spotify-queue"} :
           RequestArrive(r, route)
    \/ \E r \in Reqs, o \in MissOutcomes : UpstreamRespond(r, o)
    \/ \E r \in Reqs : BackoffDone(r)

SpecMiss == InitStatic /\ [][NextMiss]_vars

(* Sessions and the caches.  The host signs in with a one-hour token,     *)
(* signs out while no request is in flight and signs in again, a second or  *)
(* more apart; requests for /api/playback and /api/spotify-queue arrive one *)
(* at a time and the upstream API answers them with a payload or with 204.  *)

SessionDeltas == {1000}
SessionOutcomes ==
    { Outcome("response", 200, b, "") : b \in Bodies } \cup { Response(204) }

NextSession ==
    \/ \E d \in SessionDeltas : Tick(d)
    \/ HostLoginOnce
    \/ HostCallbackOnce
    \/ HostExchange
    \/ reqs["r1"].pc = "idle" /\ Logout
    \/ \E route \in {"playback", "spotify-queue"} : RequestArrive("r1", route)
    \/ \E o \in SessionOutcomes : UpstreamRespond("r1", o)

SpecSession == InitStatic /\ [][NextSession]_vars

----------------------------------------------------------------------------
(* Properties *)

\* Steps of request slot r, read off the program counters
Arrives(r) == reqs[r].pc = "idle" /\ reqs'[r] # reqs[r]
RefreshReturns(r) ==
    reqs[r].pc = "refreshWait" /\ reqs'[r].pc = "refreshReturned"
CallsRefresh(r) ==
    reqs[r].pc = "idle" /\ reqs'[r].pc \in {"refreshWait", "refreshReturned"}
ServedFromCache(r) ==
    /\ last' # last
    /\ last'.op = "route"
    /\ last'.fromCache
    /\ last'.req = r
\* next() is called: the route handler runs
LetThrough(r) ==
    /\ reqs[r].pc \in {"idle", "refreshReturned"}
    /\ reqs'[r].pc = "fetchWait" \/ ServedFromCache(r)

\* C1: in every reachable state accessToken, refreshToken and expiresAt are
\* all present or all absent; in particular accessToken is never set while
\* refreshToken is null, nor the reverse.
C1_AllOrNothing ==
    /\ (tokenData.accessToken = Null) <=> (tokenData.refreshToken = Null)
    /\ (tokenData.accessToken = Null) <=> (tokenData.expiresAt = Null)

\* C2: a callback whose state parameter differs from the state of the
\* current attempt is rejected, starts no token exchange and leaves the
\* token store as it was, whatever code and error it carries.
C2_CsrfRejection ==
    [][(last' # last /\ last'.op = "callback"
            /\ last'.state # currentOAuthState)
        => /\ ~last'.exchange
           /\ exch' = exch
           /\ tokenData' = tokenData
           /\ \/ last'.status = 400
              \/ last'.status = 302 /\ last'.reason = "invalid_state"]_vars

\* A callback that carries a code, no error and a state other than the one
\* issued by the login before it has been rejected.
C2_Witness ==
    /\ last.op = "callback"
    /\ currentOAuthState # Null
    /\ last.state # currentOAuthState
    /\ last.code = 1
    /\ last.error = Undefined
    /\ ~last.exchange
    /\ exch = 0

\* C4: a request is let through without a refresh only when the token is at
\* least TOKEN_REFRESH_BUFFER_MS away from its expiry; on a token closer to
\* its expiry (usable or not) the handler runs only after a refresh that
\* succeeded.
C4_RefreshBuffer ==
    [][\A r \in Reqs :
        /\ (LetThrough(r) /\ reqs[r].pc = "idle")
               => tokenData.expiresAt - now >= 300000
        /\ (LetThrough(r) /\ reqs[r].pc = "refreshReturned")
               => reqs[r].refreshed
        /\ (Arrives(r) /\ tokenData.accessToken # Null
                /\ tokenData.expiresAt - now < 300000)
               => CallsRefresh(r)]_vars

\* A request has arrived on a token that is still usable but inside the
\* buffer, and the refresh grant has been sent for it.
C4_Witness ==
    /\ last.op = "refreshCall"
    /\ reqs[last.req].pc = "refreshWait"
    /\ tokenData.accessToken # Null
    /\ now < tokenData.expiresAt
    /\ tokenData.expiresAt - now < 300000

\* C5: a successful refresh replaces accessToken and expiresAt by the values
\* of the response; refreshToken is replaced when the response carries one
\* and keeps its value when the response omits it.
C5_RefreshTokenPreserved ==
    [][\A r \in Reqs :
        (RefreshReturns(r) /\ last'.resp.kind = "ok")
        => /\ tokenData'.accessToken = last'.resp.access_token
           /\ tokenData'.expiresAt = now + last'.resp.expires_in * 1000
           /\ tokenData'.refreshToken =
                 IF last'.resp.refresh_token = Null
                 THEN tokenData.refreshToken
                 ELSE last'.resp.refresh_token]_vars

\* A refresh whose response omitted refresh_token has just succeeded: the
\* store holds the response's access token and still holds a refresh token.
C5_Witness ==
    /\ last.op = "refresh"
    /\ last.ok
    /\ last.resp.refresh_token = Null
    /\ reqs[last.req].pc = "refreshReturned"
    /\ tokenData.accessToken = last.resp.access_token
    /\ tokenData.refreshToken # Null
    /\ tokenData.refreshToken # tokenData.accessToken

\* Statuses of the retry classification
TerminalStatuses == {400, 401, 403, 404}
RetriedStatuses == {429, 500, 502, 503, 504, 408}
IsTerminal(e) == e.kind = "response" /\ e.status \in TerminalStatuses
IsRetried(e) == e.kind = "response" /\ e.status \in RetriedStatuses
IsSuccess(e) == e.kind = "response" /\ e.status >= 200 /\ e.status <= 299

CacheOf(route) ==
    IF route = "playback" THEN playbackCache ELSE spotifyQueueCache

\* C6: a request for a cached route is answered from the cache, with the
\* stored payload and without an upstream call, iff the cache holds a
\* payload whose age now - timestamp is below 15000 ms; otherwise the
\* upstream API is called.  So a request ttl - 1 ms after the populating
\* request is a hit and one at ttl or ttl + 1 ms is a miss.
C6_CacheFreshness ==
    [][\A r \in Reqs :
        /\ (LetThrough(r) /\ ServedFromCache(r))
              => /\ CacheOf(last'.route).data # Null
                 /\ now - CacheOf(last'.route).timestamp < 15000
                 /\ last'.data = CacheOf(last'.route).data
                 /\ reqs'[r].pc = "idle"
                 /\ UNCHANGED <<playbackCache, spotifyQueueCache>>
        /\ (LetThrough(r) /\ ~ServedFromCache(r)
               /\ reqs'[r].route \in {"playback", "spotify-queue"})
              => \/ CacheOf(reqs'[r].route).data = Null
                 \/ now - CacheOf(reqs'[r].route).timestamp >= 15000]_vars

\* A request has been answered from the cache 14999 ms after the request
\* that populated it.
C6_Witness ==
    /\ last.op = "route"
    /\ last.fromCache
    /\ last.age = 14999
    /\ last.data \in Bodies

\* C7: the payload and the timestamp of a cache change only in a step in
\* which an upstream fetch succeeded; a failed fetch (non-success status or
\* network error) leaves both caches as they were.
C7_CacheOnlyOnSuccess ==
    [][(playbackCache' # playbackCache
            \/ spotifyQueueCache' # spotifyQueueCache)
        => /\ last'.op = "route"
           /\ ~last'.fromCache
           /\ last'.result = "response"
           /\ IsSuccess(last'.hist[Len(last'.hist)])]_vars

\* C8, as claimed: while the store is not usable (no access token, or now
\* not before expiresAt) no request leaves the guard towards the token
\* endpoint or the upstream API.
C8_UnusableNeverRefreshed ==
    [][\A r \in Reqs :
        (reqs[r].pc = "idle"
            /\ (tokenData.accessToken = Null \/ now >= tokenData.expiresAt))
        => reqs'[r].pc = "idle"]_vars

\* C8, amended: with no access token the guard rejects the request as not
\* authenticated without a refresh and without an upstream call; with an
\* access token it never answers "not authenticated", and it calls refresh
\* exactly when now >= expiresAt - buffer, also for an expired token.
C8_GuardOnAccessToken ==
    [][\A r \in Reqs :
        /\ (reqs[r].pc = "idle" /\ tokenData.accessToken = Null)
              => reqs'[r].pc = "idle"
        /\ (last' # last /\ last'.op = "guard"
                /\ last'.verdict = "not_authenticated")
              => /\ tokenData.accessToken = Null
                 /\ last'.status = 401
                 /\ tokenData' = tokenData /\ reqs' = reqs
        /\ CallsRefresh(r)
              => /\ tokenData.accessToken # Null
                 /\ now >= tokenData.expiresAt - 300000
        /\ (Arrives(r) /\ tokenData.accessToken # Null
                /\ now >= tokenData.expiresAt)
              => CallsRefresh(r)]_vars

\* A request has arrived on an expired token and the refresh grant has been
\* sent for it.
C8_Witness ==
    /\ last.op = "refreshCall"
    /\ reqs[last.req].pc = "refreshWait"
    /\ tokenData.accessToken # Null
    /\ now >= tokenData.expiresAt

\* C9: when the refresh fails the guard clears the store and answers 401
\* "session expired" without running the handler; from then on, until an
\* authorization-code exchange succeeds, no request passes the guard and
\* none reaches the token endpoint.
C9_NoRetryAfterExpiry ==
    [][\A r \in Reqs :
        /\ (reqs[r].pc = "refreshReturned" /\ ~reqs[r].refreshed)
              => /\ reqs'[r].pc = "idle"
                 /\ tokenData' = EmptyToken
                 /\ last'.op = "guard" /\ last'.status = 401
                 /\ last'.verdict = "session_expired"
        /\ (sessionExpired /\ reqs[r].pc = "idle")
              => reqs'[r].pc = "idle"]_vars

\* C10: when the token endpoint answers a refresh with a non-success status
\* or the request fails, refreshAccessToken returns false and the three
\* fields keep their values; the store is cleared only afterwards, by
\* ensureToken.
C10_FailedRefreshWritesNothing ==
    [][\A r \in Reqs :
        /\ (RefreshReturns(r) /\ last'.resp.kind # "ok")
              => tokenData' = tokenData /\ ~reqs'[r].refreshed
        /\ (reqs[r].pc = "idle" /\ reqs'[r].pc = "refreshReturned")
              => tokenData' = tokenData /\ ~reqs'[r].refreshed]_vars

\* The refresh request has failed with a network error, refreshAccessToken
\* has returned false and the store still holds the tokens.
C10_Witness ==
    /\ last.op = "refresh"
    /\ last.resp.kind = "throw"
    /\ reqs[last.req].pc = "refreshReturned"
    /\ ~reqs[last.req].refreshed
    /\ tokenData.accessToken # Null
    /\ tokenData.refreshToken # Null

\* C11: when refreshAccessToken is called while no refresh token is held it
\* returns false at once: no request goes to the token endpoint and the
\* three fields keep their values; a refresh request is only ever sent
\* while a refresh token is held.
C11_NoRefreshTokenFailsFast ==
    [][\A r \in Reqs :
        /\ (CallsRefresh(r) /\ tokenData.refreshToken = Null)
              => /\ reqs'[r].pc = "refreshReturned"
                 /\ ~reqs'[r].refreshed
                 /\ tokenData' = tokenData
                 /\ last'.op = "refreshCall" /\ ~last'.sent
        /\ (CallsRefresh(r) /\ reqs'[r].pc = "refreshWait")
              => tokenData.refreshToken # Null /\ last'.sent]_vars

\* The guard has called refreshAccessToken on a store that holds an access
\* token and no refresh token; it has returned false without a request.
C11_Witness ==
    /\ last.op = "refreshCall"
    /\ ~last.sent
    /\ reqs[last.req].pc = "refreshReturned"
    /\ ~reqs[last.req].refreshed
    /\ tokenData.accessToken # Null
    /\ tokenData.refreshToken = Null

\* The token endpoint answers an authorization-code grant in this step
ExchangeReturns == exch' = exch - 1

\* C12: when the token endpoint answers an authorization-code grant with
\* success, accessToken, refreshToken and expiresAt (= now + expires_in *
\* 1000) are all taken from the response and the store is usable; on a
\* non-success status the result is token_exchange_failed, on a thrown
\* error callback_failed, and in both cases the three fields keep their
\* values.
C12_ExchangeWrites ==
    [][ExchangeReturns
        => /\ last'.op = "exchange"
           /\ last'.resp.kind = "ok"
                 => /\ tokenData'.accessToken = last'.resp.access_token
                    /\ tokenData'.refreshToken = last'.resp.refresh_token
                    /\ tokenData'.expiresAt
                          = now + last'.resp.expires_in * 1000
                    /\ isAuthenticated(tokenData', now')
                    /\ last'.reason = "authenticated"
           /\ last'.resp.kind = "http"
                 => /\ tokenData' = tokenData
                    /\ last'.reason = "token_exchange_failed"
           /\ last'.resp.kind = "throw"
                 => /\ tokenData' = tokenData
                    /\ last'.reason = "callback_failed"]_vars

\* An exchange has failed with a thrown error on a store that an earlier
\* exchange had populated; the store still holds those tokens.
C12_Witness ==
    /\ last.op = "exchange"
    /\ last.resp.kind = "throw"
    /\ last.reason = "callback_failed"
    /\ tokenData.accessToken # Null
    /\ tokenData.refreshToken # Null
    /\ tokenData.accessToken # tokenData.refreshToken

\* C13: once a callback carrying the current state has ended in a terminal
\* state (Failed on an upstream error or a missing code, Completed or Failed
\* when its exchange has returned), no later callback starts a token
\* exchange until a new login has generated a new state: a used state
\* cannot be replayed.
C13_OneTerminalState ==
    [][attemptPhase = "Ended" => exch' <= exch]_vars

\* A /callback handler has processed a request in this step
CallbackHandled == last' # last /\ last'.op = "callback"

\* C14: the single slot holds the state of the most recent login that
\* issued an authorization URL; a callback carrying the state of an
\* earlier login is rejected as a state mismatch and starts no token
\* exchange, and a callback carrying the state of the latest login, with a
\* code and no error, is accepted by the handler of the mode and starts the
\* exchange.
C14_SingleTrustedState ==
    [][/\ currentOAuthState' = IF nStates' = 0 THEN Null ELSE nStates'
       /\ (CallbackHandled /\ last'.state >= 1 /\ last'.state < nStates)
             => /\ last'.outcome \in {"invalid_state", "wrong_endpoint"}
                /\ ~last'.exchange
                /\ exch' = exch
       /\ (CallbackHandled /\ nStates >= 1 /\ last'.state = nStates
              /\ last'.outcome # "wrong_endpoint")
             => /\ last'.outcome # "invalid_state"
                /\ (last'.code = 1 /\ last'.error = Undefined)
                      => last'.exchange /\ exch' = exch + 1]_vars

\* After a second login a callback carrying the first login's state and a
\* code has been rejected as a state mismatch.
C14_Witness ==
    /\ nStates = 2
    /\ currentOAuthState = 2
    /\ last.op = "callback"
    /\ last.state = 1
    /\ last.code = 1
    /\ last.error = Undefined
    /\ last.outcome = "invalid_state"
    /\ ~last.exchange

\* Reason codes of the four failure outcomes of a callback
UpstreamErrorReasons == {ErrorCodes[i] : i \in 1 .. Len(ErrorCodes)}
ExchangeFailureReasons == {"token_exchange_failed", "callback_failed"}

\* C15: in both modes each failure outcome of a callback carries a reason
\* code that tells it from the other three: a state mismatch (checked
\* first) carries invalid_state, an upstream error with matching state
\* carries the upstream error code and starts no exchange, a missing code
\* carries no_code and starts no exchange, and a failed exchange carries
\* token_exchange_failed or callback_failed.
C15_ReasonCodes ==
    [][/\ (CallbackHandled /\ last'.outcome # "wrong_endpoint"
              /\ last'.state # last'.expected)
             => last'.outcome = "invalid_state"
       /\ (CallbackHandled /\ last'.outcome = "invalid_state")
             => last'.reason = "invalid_state"
       /\ (CallbackHandled /\ last'.outcome = "error")
             => /\ last'.reason = ErrorCodes[last'.error]
                /\ last'.reason \notin
                      {"invalid_state", "no_code"} \cup ExchangeFailureReasons
                /\ ~last'.exchange
       /\ (CallbackHandled /\ last'.outcome = "no_code")
             => last'.reason = "no_code" /\ ~last'.exchange
       /\ (ExchangeReturns /\ last'.resp.kind # "ok")
             => last'.reason \in ExchangeFailureReasons]_vars

\* C16: every callback server object is bound to the literal 127.0.0.1 and,
\* once listening, to a port assigned by the OS; the redirect URI of every
\* authorization URL issued in dynamic mode is http://127.0.0.1:{port}/callback
\* with the port read back from the socket that is listening then.
C16_LoopbackBinding ==
    /\ \A i \in 1 .. Len(servers) :
          /\ servers[i].address = "127.0.0.1"
          /\ servers[i].listening => servers[i].port \in Ports
          /\ ~servers[i].listening => servers[i].port = Null
    /\ (useDynamic /\ last.op = "login" /\ last.status = 302)
          => /\ Len(servers) >= 1
             /\ servers[Len(servers)].listening
             /\ last.redirectUri =
                   [scheme |-> "http", host |-> "127.0.0.1",
                    port |-> servers[Len(servers)].port, path |-> "/callback"]
             /\ oauthCallbackPort = servers[Len(servers)].port

\* In dynamic mode a login has issued an authorization URL whose redirect
\* URI names the port of the listening callback server.
C16_Witness ==
    /\ useDynamic
    /\ last.op = "login"
    /\ last.status = 302
    /\ oauthCallbackServer = "listening"
    /\ last.redirectUri.host = "127.0.0.1"
    /\ last.redirectUri.port \in Ports
    /\ last.redirectUri.port = oauthCallbackPort

\* /login has issued an authorization URL in this step
UrlIssued == nStates' = nStates + 1

\* C17: at most one callback server object exists at any time, whatever the
\* order of logins and stops; it is created only by a login in dynamic mode
\* that finds none, a login that finds one creates no other, and an
\* authorization URL of dynamic mode is issued only while the server is
\* listening on the port the URL names.
C17_SingleCallbackServer ==
    [][/\ Len(servers') <= 1
       /\ (Len(servers') = 1) <=> (oauthCallbackServer' # "null")
       /\ ~useDynamic => servers' = <<>>
       /\ Len(servers') > Len(servers)
             => /\ oauthCallbackServer = "null"
                /\ loginWait'
                /\ ~UrlIssued
       /\ (UrlIssued /\ oauthCallbackServer # "null" /\ ~loginWait)
             => servers' = servers
       /\ (UrlIssued /\ useDynamic)
             => /\ servers'[1].listening
                /\ last'.op = "login"
                /\ last'.port = servers'[1].port
                /\ last'.port # Null]_vars

\* A second login in dynamic mode has issued its authorization URL on the
\* callback server that the first login started.
C17_Witness ==
    /\ useDynamic
    /\ nStates = 2
    /\ last.op = "login"
    /\ last.status = 302
    /\ Len(servers) = 1
    /\ servers[1].listening
    /\ last.port = servers[1].port

\* /login has run up to its first await or to its answer in this step
LoginHandled ==
    \/ last' # last /\ last'.op = "login"
    \/ loginWait' /\ ~loginWait

\* C18: a failure of the callback server to obtain a port fails only the
\* login that started it: a login made after the failure starts the
\* callback server again, so that it can issue an authorization URL once a
\* port is available.
C18_LoginRetryAfterBindFailure ==
    [][(oauthCallbackServer = "failed" /\ LoginHandled)
        => oauthCallbackServer' = "binding" /\ loginWait']_vars

\* Network-level failures that spotifyFetch retries
RetriedErrors == {"AbortError", "fetch failed", "ECONNRESET", "ETIMEDOUT"}

\* C19: a logical call whose 4 attempts all end in a retried status returns
\* the response of the 4th attempt; a call ends by rejecting exactly when
\* its last attempt failed at network level, which is either the 4th
\* attempt of a call or an attempt failing with an error outside the
\* retried set, after which no further attempt is made; 4 attempts failing
\* with retried errors end in a rejection with the last error.
C19_ExhaustedRetries ==
    (last.op = "route" /\ ~last.fromCache)
        => LET h == last.hist
               n == Len(h)
           IN  /\ (n = 4 /\ \A i \in 1 .. 4 : IsRetried(h[i]))
                     => last.result = "response" /\ last.status = h[4].status
               /\ (last.result = "throw") <=> (h[n].kind = "error")
               /\ last.result = "throw"
                     => \/ n = 4
                        \/ h[n].err \notin RetriedErrors
               /\ \A i \in 1 .. n :
                     (h[i].kind = "error" /\ h[i].err \notin RetriedErrors)
                        => i = n
               /\ (\A i \in 1 .. n :
                       h[i].kind = "error" /\ h[i].err \in RetriedErrors)
                     => n = 4 /\ last.result = "throw"

\* A call has made 4 attempts, each failing with another retried network
\* error, and has rejected with the last one.
C19_Witness ==
    /\ last.op = "route"
    /\ ~last.fromCache
    /\ Len(last.hist) = 4
    /\ last.hist[1].err = "AbortError"
    /\ last.hist[2].err = "fetch failed"
    /\ last.hist[3].err = "ECONNRESET"
    /\ last.hist[4].err = "ETIMEDOUT"
    /\ last.result = "throw"

\* C20: when attempt a of a logical call (a = 0, 1, 2) ends in a retried
\* status or a retried network error, the next attempt is scheduled exactly
\* 1000, 2000 and 4000 ms later, whatever the response carries, and it is
\* attempt a + 1, sent no earlier than that; attempt 3 is followed by no
\* wait: the call returns or rejects in the step in which it ends.
C20_BackoffDelays ==
    [][\A r \in Reqs :
        /\ (reqs[r].pc = "fetchWait" /\ reqs'[r].pc = "backoff")
              => /\ reqs[r].attempt \in {0, 1, 2}
                 /\ reqs'[r].attempt = reqs[r].attempt
                 /\ reqs'[r].wake - now =
                       CASE reqs[r].attempt = 0 -> 1000
                         [] reqs[r].attempt = 1 -> 2000
                         [] reqs[r].attempt = 2 -> 4000
        /\ (reqs[r].pc = "backoff" /\ reqs'[r] # reqs[r])
              => /\ reqs'[r].pc = "fetchWait"
                 /\ now >= reqs[r].wake
                 /\ reqs'[r].attempt = reqs[r].attempt + 1
        /\ (reqs[r].pc = "fetchWait" /\ reqs[r].attempt = 3
               /\ reqs'[r] # reqs[r])
              => reqs'[r].pc = "idle"]_vars

\* The third attempt of a call has failed with a network error after two
\* retried statuses; the fourth attempt is scheduled 4000 ms later.
C20_Witness ==
    \E r \in Reqs :
        /\ reqs[r].pc = "backoff"
        /\ reqs[r].attempt = 2
        /\ reqs[r].hist[1].kind = "response"
        /\ reqs[r].hist[3].kind = "error"
        /\ reqs[r].wake = now + 4000

\* What the parser was given in the call observed in `last`
ParsedJson == JSONparse(last.text.core)
BodyBlank == last.text.core = ""
BodyReadable == ~last.bodyUsed
CarriesMessage ==
    /\ ParsedJson.valid
    /\ ParsedJson.error = "object"
    /\ ParsedJson.message \notin {"absent", ""}
LacksMessage ==
    /\ ParsedJson.valid
    /\ ParsedJson.error # "object" \/ ParsedJson.message = "absent"

\* C22: the parser returns error.message for a JSON body that carries one,
\* the trimmed raw text for a non-empty body that is not valid JSON, and the
\* caller's fallback for an empty or whitespace-only body, for a body that
\* cannot be read and for valid JSON without error.message.
C22_ParseErrorBody ==
    last.op = "parse"
        => /\ (BodyReadable /\ ~BodyBlank /\ CarriesMessage)
                 => last.result = ParsedJson.message
           /\ (BodyReadable /\ ~BodyBlank /\ ~ParsedJson.valid)
                 => last.result = last.text.core
           /\ (~BodyReadable \/ BodyBlank \/ LacksMessage)
                 => last.result = last.fallback

\* C23, as claimed: for a body that parses as JSON and has no message field
\* the parser returns the raw trimmed text; the fallback is returned only
\* for an empty or whitespace-only body.
C23_RawTextWhenFieldAbsent ==
    (last.op = "parse" /\ BodyReadable)
        => /\ (~BodyBlank /\ LacksMessage) => last.result = last.text.core
           /\ last.result = last.fallback => BodyBlank

\* C23, amended: for a body that parses as a JSON value other than null and
\* has no message field, or an empty one, the parser returns the caller's
\* fallback, as it does for an empty or whitespace-only body; the raw
\* trimmed text is returned only when parsing the text or reading the field
\* fails.
C23_FallbackWhenFieldAbsent ==
    (last.op = "parse" /\ BodyReadable /\ ~BodyBlank)
        => /\ (ParsedJson.valid /\ ParsedJson.type # "null" /\ ~CarriesMessage)
                 => last.result = last.fallback
           /\ (last.result = last.text.core)
                 => ~ParsedJson.valid \/ ParsedJson.type = "null"

\* The parser was given a padded JSON object without an error field and has
\* returned the fallback.
C23_Witness ==
    /\ last.op = "parse"
    /\ ~last.bodyUsed
    /\ last.text = Text("{\"status\":500,\"reason\":\"Internal error\"}", TRUE)
    /\ last.fallback = "Failed to add to queue"
    /\ last.result = "Failed to add to queue"

\* /api/search has answered with the status of an upstream response that
\* spotifyFetch does not retry
ClientErrorStatuses == {400, 401, 403, 404}
SearchClientError ==
    /\ last.op = "route"
    /\ last.route = "search"
    /\ last.result = "response"
    /\ last.status \in ClientErrorStatuses
SurfacedJson == JSONparse(last.text.core)
SurfacedMessage ==
    /\ SurfacedJson.valid
    /\ SurfacedJson.error = "object"
    /\ SurfacedJson.message \notin {"absent", ""}

\* C21: a non-retryable client error (400, 403) is surfaced after a single
\* attempt: no earlier attempt of the call saw a client error, the answer
\* has the upstream status, and its error message is the one parsed from
\* the body (X for {"error":{"message":"X"}}); the fallback message is sent
\* only when the body has no message to parse.
C21_ClientErrorSurfaced ==
    SearchClientError
        => /\ \A i \in 1 .. Len(last.hist) - 1 :
                  last.hist[i].status \notin ClientErrorStatuses
           /\ last.hist[Len(last.hist)].status = last.status
           /\ SurfacedMessage => last.error = SurfacedJson.message
           /\ last.error = "Search failed"
                  => ~SurfacedMessage /\ last.text.core = ""

\* Attempt reqs'[r].attempt of r's call is sent in this step
AttemptSent(r) ==
    /\ reqs'[r].pc = "fetchWait"
    /\ reqs[r].pc # "fetchWait" \/ reqs'[r].attempt # reqs[r].attempt
\* The attempts made so far by r's call, after this step
HistAfter(r) ==
    IF reqs'[r].pc = "idle" THEN last'.hist ELSE reqs'[r].hist
\* The in-flight attempt of r's call is aborted in this step
AttemptAborted(r) ==
    /\ reqs[r].pc = "fetchWait"
    /\ reqs'[r].pc # "fetchWait"
    /\ reqs'[r].pc = "idle" => last' # last /\ last'.op = "route"
                               /\ last'.req = r
    /\ HistAfter(r) = Append(reqs[r].hist,
                             [kind |-> "error", status |-> 0,
                              err |-> "AbortError"])
OwnTimer(r, a) == {t \in reqs[r].timers : t.attempt = a}

PerAttemptTimeout(r) ==
    /\ AttemptSent(r)
          => \E t \in reqs'[r].timers :
                 /\ t.attempt = reqs'[r].attempt
                 /\ t.due = now' + 10000
    /\ AttemptAborted(r)
          => /\ \E t \in OwnTimer(r, reqs[r].attempt) :
                    t.due = t.set + 10000 /\ now >= t.due
             /\ \A q \in Reqs \ {r} : reqs'[q] = reqs[q]
             /\ IF reqs[r].attempt < maxRetries
                THEN /\ reqs'[r].pc = "backoff"
                     /\ reqs'[r].attempt = reqs[r].attempt
                     /\ reqs'[r].wake = now + delayMs(reqs[r].attempt)
                ELSE /\ reqs'[r].pc = "idle"
                     /\ last'.result = "throw"
                     /\ last'.status = 500
    /\ \A t \in reqs[r].timers \ reqs'[r].timers :
           t.attempt # reqs[r].attempt
              => reqs'[r].pc = reqs[r].pc /\ reqs'[r].hist = reqs[r].hist

\* C24: every attempt is sent with its own timer, due 10 seconds after the
\* attempt is sent.  An attempt is aborted only by its own timer, once that
\* timer is due; the abort leaves every other call alone and the aborted
\* call goes to its backoff and next attempt, unless the aborted attempt
\* was the fourth, in which case the call fails.  A timer of an attempt
\* that is no longer in flight changes nothing of the call when it goes.
C24_PerAttemptTimeout == [][\A r \in Reqs : PerAttemptTimeout(r)]_vars

\* The second attempt of r1's call has timed out 10 seconds after it was
\* sent, while r2's call is still waiting for its first answer; r1's call
\* is in its backoff before the third attempt.
C24_Witness ==
    /\ reqs["r1"].pc = "backoff"
    /\ reqs["r1"].attempt = 1
    /\ reqs["r1"].hist = <<[kind |-> "response", status |-> 503, err |-> ""],
                           [kind |-> "error", status |-> 0,
                            err |-> "AbortError"]>>
    /\ reqs["r1"].wake = now + 2000
    /\ reqs["r1"].timers = {}
    /\ reqs["r2"].pc = "fetchWait"
    /\ reqs["r2"].attempt = 0
    /\ \E t \in reqs["r2"].timers : t.attempt = 0 /\ t.due > now

\* C25: the token an attempt carries is the access token the store holds
\* at the moment that attempt is sent; the tokens carried by the earlier
\* attempts of the call are not touched.
C25_TokenReadPerAttempt ==
    [][\A r \in Reqs :
          AttemptSent(r)
             => /\ Len(reqs'[r].bearers) = reqs'[r].attempt + 1
                /\ reqs'[r].bearers[reqs'[r].attempt + 1] = tokenData.accessToken
                /\ \A i \in 1 .. reqs'[r].attempt :
                       reqs'[r].bearers[i] = reqs[r].bearers[i]]_vars

\* The first attempt of r1's call carried token 1; the host signed in again
\* during the backoff and the second attempt, now in flight, carries
\* token 2.
C25_Witness ==
    /\ reqs["r1"].pc = "fetchWait"
    /\ reqs["r1"].attempt = 1
    /\ reqs["r1"].bearers = <<1, 2>>
    /\ tokenData.accessToken = 2

\* A token response is processed in this step and is a success
TokenResponseProcessed ==
    /\ last' # last
    /\ last'.op \in {"refresh", "exchange"}
    /\ last'.resp.kind = "ok"
ConcurrentRefresh(r) ==
    /\ (Arrives(r) /\ hasAccessToken(tokenData)
           /\ needsRefresh(tokenData, now) /\ hasRefreshToken(tokenData))
          => reqs'[r].pc = "refreshWait"
    /\ (RefreshReturns(r) /\ last'.ok)
          => /\ tokenData'.accessToken = last'.resp.access_token
             /\ tokenData'.expiresAt = now + last'.resp.expires_in * 1000

\* C26: a guarded request that finds the token in need of refresh calls the
\* token endpoint whether or not another request's refresh is in flight;
\* every successful refresh response writes its own accessToken and its own
\* expiresAt, so after two of them the store holds the pair of the response
\* processed last; and whenever accessToken or expiresAt changes, both come
\* from the one token response processed in that step, or both are cleared.
C26_ConcurrentRefreshes ==
    [][/\ \A r \in Reqs : ConcurrentRefresh(r)
       /\ (tokenData'.accessToken # tokenData.accessToken
              \/ tokenData'.expiresAt # tokenData.expiresAt)
             => \/ tokenData'.accessToken = Null /\ tokenData'.expiresAt = Null
                \/ /\ TokenResponseProcessed
                   /\ tokenData'.accessToken = last'.resp.access_token
                   /\ tokenData'.expiresAt =
                          now + last'.resp.expires_in * 1000]_vars

\* r1 and r2 both found the token in need of refresh and both called the
\* token endpoint.  r1's refresh returned token 1 and r1 went on with it;
\* at the same instant r2's refresh has returned token 2, and the store
\* holds token 2 with the expiry of that response.
C26_Witness ==
    /\ reqs["r1"].pc = "fetchWait"
    /\ reqs["r1"].refreshed
    /\ reqs["r1"].reqNow = now
    /\ reqs["r1"].bearers = <<1>>
    /\ reqs["r2"].pc = "refreshReturned"
    /\ reqs["r2"].refreshed
    /\ last.op = "refresh" /\ last.req = "r2" /\ last.ok
    /\ last.resp.access_token = 2
    /\ tokenData.accessToken = 2
    /\ tokenData.expiresAt = now + last.resp.expires_in * 1000

\* C27: with track limits enforced no address ever has more than
\* MAX_TRACKS_PER_IP tracks counted as added, whatever the interleaving of
\* its POST /api/queue requests; and a request that arrives when the count
\* has reached the limit is answered 429 without an upstream call.
C27_TrackLimit ==
    [][/\ \A ip \in IPs :
             getUserTrackCount(db', ip) <= MAX_TRACKS_PER_IP
       /\ \A r \in Reqs :
             (LetThrough(r) /\ reqs'[r].route = "queue")
                => getUserTrackCount(db, getClientIP(r)) < MAX_TRACKS_PER_IP]_vars

\* A vote is handled in this step
VoteHandled == last'.op = "vote" /\ (last' # last \/ db' # db)
VotersOf(d, trackId) == {ip \in IPs : d.trackVotes[<<trackId, ip>>] > 0}

\* C28: an address never holds more than one vote on a track.  A vote for a
\* track of the party queue toggles the vote of that address on that track
\* and nothing else, and reports the number of addresses then voting for
\* the track; a vote for a track that is not in the party queue is answered
\* 404 and leaves the database as it was.
C28_VoteToggle ==
    [][/\ \A p \in Tracks \X IPs : db'.trackVotes[p] \in {0, 1}
       /\ VoteHandled
             => LET t == last'.trackId
                    ip == last'.ip
                IN  IF inPartyQueue(db, t)
                    THEN /\ last'.status = 200
                         /\ db'.trackVotes[<<t, ip>>]
                               = 1 - db.trackVotes[<<t, ip>>]
                         /\ last'.hasVoted = (db'.trackVotes[<<t, ip>>] = 1)
                         /\ \A p \in (Tracks \X IPs) \ {<<t, ip>>} :
                                db'.trackVotes[p] = db.trackVotes[p]
                         /\ last'.votes = Cardinality(VotersOf(db', t))
                         /\ last'.votes >= 0
                    ELSE last'.status = 404 /\ db' = db]_vars

\* Both addresses vote for t1; the second address has then taken its vote
\* back, and one vote is reported.
C28_Witness ==
    /\ last.op = "vote"
    /\ last.trackId = "t1"
    /\ last.ip = "10.0.0.2"
    /\ last.status = 200
    /\ ~last.hasVoted
    /\ last.votes = 1
    /\ db.trackVotes[<<"t1", "10.0.0.1">>] = 1
    /\ db.trackVotes[<<"t1", "10.0.0.2">>] = 0

\* A database call or admin request named op is made in this step
AdminStep(op) == last'.op = op /\ (last' # last \/ db' # db)
Live(d, k, t) == d.adminSessions[k] # Null /\ d.adminSessions[k] > t
OthersKept(k) ==
    \A j \in AdminTokens \ {k} : db'.adminSessions[j] = db.adminSessions[j]

\* C29: validateAdminSession(token) returns true exactly when the token has
\* a session row (created and not deleted since) whose expiresAt is
\* strictly after now, and it deletes the row of an expired session;
\* cleanupExpiredSessions removes exactly the rows with expiresAt <= now and
\* returns their number; deleteAdminSession removes the row, after which the
\* token does not validate; rows appear only when a session is created; and
\* requireAdmin lets a request through only with a token whose session is
\* live.
C29_AdminSessions ==
    [][/\ AdminStep("validateAdminSession")
             => LET k == last'.token
                IN  /\ last'.result = Live(db, k, now)
                    /\ db'.adminSessions[k] =
                           IF Live(db, k, now) THEN db.adminSessions[k]
                           ELSE Null
                    /\ OthersKept(k)
       /\ AdminStep("cleanupExpiredSessions")
             => /\ \A k \in AdminTokens :
                       db'.adminSessions[k] =
                           IF db.adminSessions[k] # Null
                                 /\ db.adminSessions[k] <= now
                           THEN Null ELSE db.adminSessions[k]
                /\ last'.removed =
                       Cardinality({k \in AdminTokens :
                                       db.adminSessions[k] # Null
                                          /\ db.adminSessions[k] <= now})
       /\ AdminStep("deleteAdminSession")
             => /\ db'.adminSessions[last'.token] = Null
                /\ ~validateAdminSession(db', last'.token, now').result
                /\ OthersKept(last'.token)
       /\ \A k \in AdminTokens :
             (db.adminSessions[k] = Null /\ db'.adminSessions[k] # Null)
                => /\ last'.op \in {"createAdminSession", "adminLogin"}
                   /\ last'.token = k
                   /\ last'.result = TRUE
       /\ AdminStep("requireAdmin")
             => (last'.status = 200
                    <=> last'.token # "" /\ Live(db, last'.token, now))]_vars

\* A session created for one second is validated one second later, at the
\* very instant of its expiresAt: the answer is false and the row is gone.
C29_Witness ==
    /\ last.op = "validateAdminSession"
    /\ last.row = now
    /\ last.result = FALSE
    /\ db.adminSessions[last.token] = Null

\* C30: GET /api/status answers status 'ok' with `authenticated` and
\* `configured` of boolean type in every state of the token store;
\* `authenticated` is true exactly when an access token is present and now
\* is strictly before expiresAt; and the store is left as it was.
C30_StatusAnswer ==
    [][(last'.op = "status" /\ last' # last)
          => /\ last'.status = "ok"
             /\ last'.authenticated.type = "boolean"
             /\ last'.configured.type = "boolean"
             /\ last'.authenticated.value
                   <=> (tokenData.accessToken # Null
                           /\ now < tokenData.expiresAt)
             /\ tokenData' = tokenData]_vars

\* A call of r ends in this step: spotifyFetch returns or throws
CallEnds(r) ==
    reqs[r].pc = "fetchWait" /\ reqs'[r].pc = "idle"

QueueAnswered ==
    /\ last' # last
    /\ last'.op = "route"
    /\ last'.route = "queue"
\* The upstream call of the request answered in this step returned 200 or
\* 204
UpstreamAccepted ==
    /\ last'.result = "response"
    /\ last'.hist[Len(last'.hist)].status \in {200, 204}

\* C32: the track counts and the party queue change only in a step in which
\* POST /api/queue answers a request whose upstream call returned 200 or
\* 204; in that step the count of the requesting address grows by exactly 1,
\* no other count changes and nothing but the requested track enters the
\* party queue.  A request answered after a missing uri, a reached limit,
\* a 404, another error status or a thrown network error leaves both as
\* they were.
C32_QueueEffect ==
    [][/\ (db'.userSessions # db.userSessions
              \/ db'.partyQueue # db.partyQueue)
             => QueueAnswered /\ UpstreamAccepted
       /\ QueueAnswered
             => IF UpstreamAccepted
                THEN LET ip == getClientIP(last'.req)
                     IN  /\ db'.userSessions =
                               [db.userSessions EXCEPT ![ip] = @ + 1]
                         /\ db'.partyQueue =
                               db.partyQueue
                               \cup {[trackId |-> reqs[last'.req].uri,
                                      addedByIp |-> ip]}
                ELSE /\ db'.userSessions = db.userSessions
                     /\ db'.partyQueue = db.partyQueue]_vars

\* r1's request for track t1 has been answered after a 503 and a 204: one
\* track is counted and queued.  Before that a request was answered 404.
C32_Witness ==
    /\ last.op = "route"
    /\ last.route = "queue"
    /\ last.req = "r1"
    /\ last.status = 200
    /\ Len(last.hist) = 2
    /\ last.hist[1].status = 503
    /\ last.hist[2].status = 204
    /\ getUserTrackCount(db, "10.0.0.1") = 1
    /\ db.partyQueue = {[trackId |-> "t1", addedByIp |-> "10.0.0.1"]}
    /\ reqs["r2"].pc = "fetchWait"

\* No vote row of the track is left
NoVotes(d, trackId) == \A ip \in IPs : d.trackVotes[<<trackId, ip>>] = 0
\* The step is a call of removeFromPartyQueue(trackId), directly or from
\* the admin route that has found the track
RemovedNow(trackId) ==
    /\ last' # last
    /\ \/ last'.op = "removeFromPartyQueue"
       \/ last'.op = "adminRemoveTrack" /\ last'.status \in {200, 500}
    /\ last'.trackId = trackId
\* The step is a call of clearPartyQueue, directly or from the admin route
ClearedNow ==
    /\ last' # last
    /\ \/ last'.op = "clearPartyQueue"
       \/ last'.op = "adminClearQueue" /\ last'.status = 200

\* C33: after removeFromPartyQueue(trackId) there is neither a queue row nor
\* a vote row for trackId; after clearPartyQueue the party queue and the
\* vote table are empty; and the two deletions are never seen apart: a step
\* that takes a track out of the queue leaves no vote of that track, and a
\* step of either function that deletes votes of a track leaves no queue row
\* of it.
C33_RemoveAndClear ==
    [][/\ \A t \in Tracks :
             /\ RemovedNow(t) => ~inPartyQueue(db', t) /\ NoVotes(db', t)
             /\ (inPartyQueue(db, t) /\ ~inPartyQueue(db', t))
                   => NoVotes(db', t)
             /\ ((RemovedNow(t) \/ ClearedNow)
                    /\ ~NoVotes(db, t) /\ NoVotes(db', t))
                   => ~inPartyQueue(db', t)
       /\ ClearedNow
             => /\ db'.partyQueue = {}
                /\ \A t \in Tracks : NoVotes(db', t)]_vars

\* The admin has removed track t1, which was queued and had the votes of
\* both addresses; t2 is still queued with its vote.
C33_Witness ==
    /\ last.op = "adminRemoveTrack"
    /\ last.trackId = "t1"
    /\ last.status = 200
    /\ ~inPartyQueue(db, "t1")
    /\ NoVotes(db, "t1")
    /\ inPartyQueue(db, "t2")
    /\ hasUserVoted(db, "t2", "10.0.0.2")

\* The admin has cleared a queue of two tracks that both had votes.
C33_WitnessClear ==
    /\ last.op = "adminClearQueue"
    /\ last.status = 200
    /\ db.partyQueue = {}
    /\ \A t \in Tracks : NoVotes(db, t)
    /\ getUserTrackCount(db, "10.0.0.1") = 2

\* A callback is handled on the main application listener in this step
MainCallbackHandled ==
    /\ last' # last
    /\ last'.op = "callback"
    /\ last'.listener = "main"

\* C34: the mode never changes; in dynamic loopback mode every callback
\* handled on the main listener is answered 400, starts no token exchange
\* and leaves the token store and the state slot as they were, whatever
\* state, code and error it carries.
C34_MainCallbackInDynamicMode ==
    [][/\ useDynamic' = useDynamic
       /\ (useDynamic /\ MainCallbackHandled)
             => /\ last'.status = 400
                /\ ~last'.exchange
                /\ exch' = exch
                /\ tokenData' = tokenData
                /\ currentOAuthState' = currentOAuthState]_vars

\* In dynamic mode, with the loopback server listening and a login
\* awaiting its callback, the main listener has received the valid state
\* and a code and has answered 400; no exchange is in flight.
C34_Witness ==
    /\ useDynamic
    /\ oauthCallbackServer = "listening"
    /\ attemptPhase = "AwaitingCallback"
    /\ last.op = "callback"
    /\ last.listener = "main"
    /\ currentOAuthState # Null
    /\ last.state = currentOAuthState
    /\ last.code = 1
    /\ last.error = Undefined
    /\ last.status = 400
    /\ exch = 0
    /\ tokenData = EmptyToken

\* Request r is rejected in this step after its refresh has failed
RejectedAfterFailedRefresh(r) ==
    /\ reqs[r].pc = "refreshReturned"
    /\ ~reqs[r].refreshed
    /\ reqs'[r].pc = "idle"
\* The store holds tokens that need no refresh.  A request calls the token
\* endpoint only for tokens that need one, and time does not run backwards:
\* such tokens were installed after the refresh of any request that is
\* still waiting for its answer had started.
HoldsFreshTokens == hasAccessToken(tokenData) /\ ~needsRefresh(tokenData, now)

\* C35: when a request is rejected after its refresh has failed and the
\* store holds tokens installed after that refresh started (by a concurrent
\* refresh or a concurrent OAuth callback), the store holds the same tokens
\* after the rejection.
C35_FailedRefreshKeepsNewTokens ==
    [][\A r \in Reqs :
          (RejectedAfterFailedRefresh(r) /\ HoldsFreshTokens)
             => tokenData' = tokenData]_vars

\* C36: every attempt of a spotifyFetch call, the first one and every retry
\* sent after a backoff wait, carries an access token: none is sent with
\* the token absent, whatever logout and the other requests do meanwhile.
C36_NoAttemptWithoutToken ==
    \A r \in Reqs :
        \A i \in 1 .. Len(reqs[r].bearers) : reqs[r].bearers[i] # Null

\* C37: the timestamp of each cache never decreases; when a cache is
\* written by a request although a request that started later has already
\* written it, the entry of the later request stays.
C37_CacheNeverRegresses ==
    [][/\ playbackCache'.timestamp >= playbackCache.timestamp
       /\ spotifyQueueCache'.timestamp >= spotifyQueueCache.timestamp]_vars

\* The moment the tokens in the store were installed: the host's exchange
\* hands out tokens of 3600 s (HostExchange) and no refresh is due within
\* a run, so it is expiresAt minus that lifetime.  The store was empty just
\* before: the host's callback is handled only when signed out.
SessionStart == tokenData.expiresAt - 3600 * 1000

\* C38: a response served from a cache carries an entry of the current
\* session: the request that stored it did not start before the tokens in
\* the store were installed.  (An entry whose request started earlier was
\* fetched and stored before the clear that preceded the sign-in: the host
\* signs out only while no request is in flight.)
C38_NoCacheAcrossSessions ==
    [][\A r \in Reqs :
          ServedFromCache(r) => now - last'.age >= SessionStart]_vars

\* /login sends its answer in this step
LoginAnswered == last' # last /\ last'.op = "login"
\* The callback server fails to obtain a port in this step: the loopback
\* interface cannot bind
BindFails == oauthCallbackServer = "binding" /\ oauthCallbackServer' = "failed"

\* C39: in dynamic loopback mode every login that is answered, except the
\* one whose own bind fails, is answered with a redirect to an
\* authorization URL whose redirect port is the port the callback server
\* is bound to; it is not answered with a 500.
C39_LoginRedirectsToBoundPort ==
    [][(useDynamic /\ LoginAnswered /\ ~BindFails)
          => /\ last'.status = 302
             /\ oauthCallbackServer' = "listening"
             /\ last'.port # Null
             /\ last'.port = oauthCallbackPort'
             /\ last'.redirectUri.port = oauthCallbackPort']_vars

\* A /callback handler runs in this step while the state slot is empty
CallbackOnEmptySlot ==
    /\ currentOAuthState = Null
    /\ last' # last
    /\ last'.op = "callback"

\* C40: while no authorization attempt has been started every callback is
\* rejected without a token exchange and without a change of the token
\* store or of the slot, whether it carries a state or none: the handler
\* that compares the state finds a mismatch (400 on the loopback listener,
\* a redirect with invalid_state on the main one), and the main listener in
\* dynamic mode rejects with 400 before it reads the query.
C40_EmptySlotMatchesNothing ==
    [][CallbackOnEmptySlot
          => /\ ~last'.exchange
             /\ exch' = exch
             /\ tokenData' = tokenData
             /\ currentOAuthState' = Null
             /\ IF useDynamic /\ last'.listener = "main"
                THEN last'.status = 400
                ELSE /\ last'.outcome = "invalid_state"
                     /\ \/ last'.status = 400
                        \/ /\ last'.status = 302
                           /\ last'.reason = "invalid_state"]_vars

\* No login has been made; a callback without a state parameter, carrying
\* a code, has been handled by the state check of the main listener and
\* rejected as a state mismatch.
C40_Witness ==
    /\ ~useDynamic
    /\ currentOAuthState = Null
    /\ nStates = 0
    /\ last.op = "callback"
    /\ last.listener = "main"
    /\ last.state = Undefined
    /\ last.code = 1
    /\ last.error = Undefined
    /\ last.outcome = "invalid_state"
    /\ last.reason = "invalid_state"
    /\ exch = 0
    /\ tokenData = EmptyToken

====
